---- MODULE Spec2Model ----
(***************************************************************************)
(* A model of crates/node_runtime/src/node_runtime.rs: RealNodeRuntime,    *)
(* its settings lock and pending-settings channel, install_if_needed and   *)
(* the operations built on it (binary_path, configure,                     *)
(* run_npm_subcommand).  Paths are tuples of components (PathBuf), the     *)
(* filesystem is the set of paths that exist, and each asynchronous task   *)
(* advances from one await point to the next.                              *)
(***************************************************************************)
EXTENDS Naturals, Sequences, FiniteSets, TLC

\* ------------------------------------------------------------------ bounds

\* Concurrent callers of the runtime.
NumTasks == 3
\* High-level operations (binary_path / run_npm_subcommand) all tasks start.
MaxCalls == 2
\* configure calls made by the settings observer.
MaxConfigure == 1

Tasks == 1..NumTasks

\* -------------------------------------------------------------- constants

VERSION == "v22.5.1"

\* Option::None for an Option<PathBuf>; a path is a non-empty tuple.
None == <<>>

\* consts::OS and consts::ARCH values a build can have.
OsValues == {"macos", "linux", "windows", "freebsd"}
ArchValues == {"x86_64", "aarch64", "riscv64"}

NODE_PATH(target_os) ==
    IF target_os = "windows" THEN <<"node.exe">> ELSE <<"bin", "node">>

NPM_PATH(target_os) ==
    IF target_os = "windows"
    THEN <<"node_modules", "npm", "bin", "npm-cli.js">>
    ELSE <<"bin", "npm">>

\* paths::support_dir()
support_dir == <<"support">>

\* ------------------------------------------------------------------ paths

\* Path::join
Join(p, q) == p \o q

\* Path::parent
Parent(p) == SubSeq(p, 1, Len(p) - 1)

\* Path::starts_with: dir is p or an ancestor of p.
StartsWith(p, dir) ==
    /\ Len(p) >= Len(dir)
    /\ SubSeq(p, 1, Len(dir)) = dir

\* ------------------------------------------------------- platform mapping

\* OsToken with a catch-all arm that maps every other OS to linux.
OsToken_fallthrough(target_os) ==
    CASE target_os = "macos" -> "darwin"
      [] target_os = "windows" -> "win"
      [] OTHER -> "linux"

\* The `match consts::OS` of install_if_needed; "" stands for the bail! arm.
OsToken(target_os) ==
    CASE target_os = "macos" -> "darwin"
      [] target_os = "linux" -> "linux"
      [] target_os = "windows" -> "win"
      [] OTHER -> ""

\* The `match consts::ARCH` of install_if_needed; "" stands for the bail! arm.
ArchToken(target_arch) ==
    CASE target_arch = "x86_64" -> "x64"
      [] target_arch = "aarch64" -> "arm64"
      [] OTHER -> ""

\* format!("node-{VERSION}-{os}-{arch}")
folder_name(os_token, arch_token) ==
    "node-" \o VERSION \o "-" \o os_token \o "-" \o arch_token

node_containing_dir == Join(support_dir, <<"node">>)

node_dir(os_token, arch_token) ==
    Join(node_containing_dir, <<folder_name(os_token, arch_token)>>)

\* --------------------------------------------------------------- settings

\* NodeRuntimeSettings::default()
DefaultSettings == [node |-> None, npm |-> None, cache |-> None]

\* Executables and directories outside the managed installation that a
\* settings override may name.
SystemNode == <<"usr", "bin", "node">>
SystemNpm == <<"usr", "lib", "npm-cli.js">>
TmpDir == <<"tmp">>
CustomCache == <<"tmp", "npm-cache">>

\* The settings values the settings observer publishes.
SettingsValues ==
    { [node |-> SystemNode, npm |-> None, cache |-> None],
      [node |-> None, npm |-> SystemNpm, cache |-> None],
      [node |-> None, npm |-> None, cache |-> CustomCache] }

\* has_override that counts a cache override as well.
has_override_any(s) == s.npm # None \/ s.node # None \/ s.cache # None

\* has_override that forgets the npm override.
has_override_node_only(s) == s.node # None

\* let has_override = settings.npm.is_some() || settings.node.is_some();
has_override(s) == s.npm # None \/ s.node # None

\* The NodePaths literal of install_if_needed.
NodePaths(s, dir, target_os) ==
    [ node |-> IF s.node # None THEN s.node ELSE Join(dir, NODE_PATH(target_os)),
      npm |-> IF s.npm # None THEN s.npm ELSE Join(dir, NPM_PATH(target_os)),
      cache |-> IF s.cache # None THEN s.cache ELSE Join(dir, <<"cache">>) ]

NoPaths == [node |-> None, npm |-> None, cache |-> None]

user_rc(paths) == Join(paths.cache, <<"blank_user_npmrc">>)

global_rc(paths) == Join(paths.cache, <<"blank_global_npmrc">>)

\* Drain that merges field by field: a field the later value leaves unset
\* keeps what an earlier value had set.
RECURSIVE Drain_merging(_, _)
Drain_merging(current, queue) ==
    IF queue = <<>> THEN current
    ELSE Drain_merging(
            [f \in {"node", "npm", "cache"} |->
                IF Head(queue)[f] # None THEN Head(queue)[f] ELSE current[f]],
            Tail(queue))

\* `while let Ok(pending) = lock.1.try_recv() { lock.0 = pending; }`
RECURSIVE Drain(_, _)
Drain(current, queue) ==
    IF queue = <<>> THEN current ELSE Drain(Head(queue), Tail(queue))

\* ------------------------------------------------------------- filesystem

\* fs::remove_dir_all(dir): everything at or below dir is gone.
remove_dir_all(fs, dir) == {p \in fs : ~StartsWith(p, dir)}

\* fs::create_dir(dir) succeeds when the parent exists and dir does not.
create_dir_ok(fs, dir) == Parent(dir) \in fs /\ dir \notin fs

create_dir(fs, dir) == IF create_dir_ok(fs, dir) THEN fs \cup {dir} ELSE fs

\* fs::write(path, []) creates the file when its directory exists.
write(fs, path) == IF Parent(path) \in fs THEN fs \cup {path} ELSE fs

\* fs::metadata(path).is_ok()
metadata_ok(fs, path) == path \in fs

\* ArchiveType of install_if_needed; "" stands for the bail! arm.
archive_extension(target_os) ==
    CASE target_os \in {"macos", "linux"} -> "tar.gz"
      [] target_os = "windows" -> "zip"
      [] OTHER -> ""

\* format!("node-{VERSION}-{os}-{arch}.{extension}")
file_name(os_token, arch_token, target_os) ==
    folder_name(os_token, arch_token) \o "." \o archive_extension(target_os)

\* format!("https://nodejs.org/dist/{VERSION}/{file_name}")
url(os_token, arch_token, target_os) ==
    "https://nodejs.org/dist/" \o VERSION \o "/"
        \o file_name(os_token, arch_token, target_os)

\* The entries of the published archive node-<version>-<os>-<arch>: one
\* top-level folder of that name holding the node binary and npm.
ArchiveEntries(os_token, arch_token, target_os) ==
    LET top == <<folder_name(os_token, arch_token)>>
    IN  { Join(top, SubSeq(NODE_PATH(target_os), 1, n)) :
            n \in 0..Len(NODE_PATH(target_os)) }
        \cup { Join(top, SubSeq(NPM_PATH(target_os), 1, n)) :
            n \in 0..Len(NPM_PATH(target_os)) }

\* The entries of the archive up to and including the node binary.
NodeEntries(os_token, arch_token, target_os) ==
    LET top == <<folder_name(os_token, arch_token)>>
    IN  { Join(top, SubSeq(NODE_PATH(target_os), 1, n)) :
            n \in 0..Len(NODE_PATH(target_os)) }

\* unpack that strips the archive's top-level folder.
unpack_flat(fs, dest, entries) ==
    fs \cup {dest} \cup {Join(dest, Tail(e)) : e \in {x \in entries : Len(x) > 1}}

\* archive.unpack(&node_containing_dir) / extract_zip(&node_containing_dir, body):
\* every entry is written below dest, which is created when it is missing.
unpack(fs, dest, entries) ==
    fs \cup {dest} \cup {Join(dest, e) : e \in entries}

\* The three best-effort steps that end install_if_needed.
housekeeping(fs, paths) ==
    write(write(create_dir(fs, paths.cache), user_rc(paths)), global_rc(paths))

\* The three calls of lines 232-234 in order, each with its path and what
\* it writes.
housekeeping_calls(paths) ==
    << [call |-> "create_dir", path |-> paths.cache, contents |-> <<>>],
       [call |-> "write", path |-> user_rc(paths), contents |-> <<>>],
       [call |-> "write", path |-> global_rc(paths), contents |-> <<>>] >>

\* What exists outside the managed installation.
SystemFiles == {support_dir, TmpDir, SystemNode, SystemNpm}

\* The builds an archive is published for, the only ones whose disk can hold
\* a managed installation.
Released(os, arch) ==
    os \in {"macos", "linux", "windows"} /\ arch \in {"x86_64", "aarch64"}

\* A complete managed installation for the platform, as an earlier run left it.
InstalledFiles(os, arch) ==
    LET dir == node_dir(OsToken(os), ArchToken(arch))
    IN  SystemFiles
        \cup {node_containing_dir}
        \cup {Join(node_containing_dir, e) :
                e \in ArchiveEntries(OsToken(os), ArchToken(arch), os)}
        \cup {Join(dir, <<"cache">>),
              Join(dir, <<"cache", "blank_user_npmrc">>),
              Join(dir, <<"cache", "blank_global_npmrc">>)}

\* ---------------------------------------------------------------- results

Ok(v) == [kind |-> "ok", value |-> v]
Err(e) == [kind |-> "err", err |-> e]
NoResult == [kind |-> "none"]
is_err(r) == r.kind = "err"

\* String::from_utf8_lossy on the byte strings the model's subprocess
\* writes: an ASCII byte decodes to itself, 0xFF to U+FFFD.
from_utf8_lossy(bytes) ==
    [i \in 1..Len(bytes) |-> IF bytes[i] < 128 THEN bytes[i] ELSE 65533]

\* What a finished subprocess can leave: exit status and captured streams.
ProcessOutputs ==
    { [status |-> 0, stdout |-> <<123, 125>>, stderr |-> <<>>],
      [status |-> 1, stdout |-> <<>>, stderr |-> <<69, 255>>],
      [status |-> 1, stdout |-> <<123>>, stderr |-> <<>>] }

Subcommands == {"info", "install"}

\* ------------------------------------------------------------------- text

\* A string is modelled as the tuple of its characters.
Digits == <<"0", "1", "2", "3", "4", "5", "6", "7", "8", "9">>

IsDigit(c) == \E i \in 1..Len(Digits) : Digits[i] = c

DigitValue(c) == (CHOOSE i \in 1..Len(Digits) : Digits[i] = c) - 1

\* The position of the first sep in text, 0 when there is none.
Find(text, sep) ==
    IF \E i \in 1..Len(text) : text[i] = sep
    THEN CHOOSE i \in 1..Len(text) :
            text[i] = sep /\ \A j \in 1..(i - 1) : text[j] # sep
    ELSE 0

\* str::split(sep)
RECURSIVE Split(_, _)
Split(text, sep) ==
    LET i == Find(text, sep)
    IN  IF i = 0 THEN <<text>>
        ELSE <<SubSeq(text, 1, i - 1)>> \o Split(SubSeq(text, i + 1, Len(text)), sep)

\* A decimal number without sign: its value.
RECURSIVE Decimal(_)
Decimal(text) ==
    IF text = <<>> THEN 0
    ELSE 10 * Decimal(SubSeq(text, 1, Len(text) - 1)) + DigitValue(text[Len(text)])

\* --------------------------------------------------------- semver::Version

\* A numeric identifier: digits only, not empty, no leading zero.
IsNumeric(text) ==
    /\ text # <<>>
    /\ \A i \in 1..Len(text) : IsDigit(text[i])
    /\ Len(text) > 1 => text[1] # "0"

Letters == <<"a", "b", "c", "r">>

Rank(c) == CHOOSE i \in 1..Len(Letters) : Letters[i] = c

\* A pre-release tag of the texts considered here: one identifier made of
\* letters.
IsPreRelease(text) ==
    /\ text # <<>>
    /\ \A i \in 1..Len(text) : \E k \in 1..Len(Letters) : Letters[k] = text[i]

\* Version::parse on texts without build metadata: MAJOR.MINOR.PATCH with an
\* optional -PRE; anything else is an error.
Version_parse(text) ==
    LET dash == Find(text, "-")
        core == IF dash = 0 THEN text ELSE SubSeq(text, 1, dash - 1)
        pre == IF dash = 0 THEN <<>> ELSE SubSeq(text, dash + 1, Len(text))
        parts == Split(core, ".")
    IN  IF /\ Len(parts) = 3
           /\ \A i \in 1..3 : IsNumeric(parts[i])
           /\ dash # 0 => IsPreRelease(pre)
        THEN Ok([major |-> Decimal(parts[1]), minor |-> Decimal(parts[2]),
                 patch |-> Decimal(parts[3]), pre |-> pre])
        ELSE Err([kind |-> "semver parse error"])

\* Ordering of two letter-only identifiers (ASCII order, a prefix first).
RECURSIVE IdentLess(_, _)
IdentLess(a, b) ==
    IF b = <<>> THEN FALSE
    ELSE IF a = <<>> THEN TRUE
    ELSE IF a[1] # b[1] THEN Rank(a[1]) < Rank(b[1])
    ELSE IdentLess(Tail(a), Tail(b))

\* Prerelease ordering: a version without pre-release tag is the greater one.
PreLess(a, b) ==
    IF a = <<>> THEN FALSE
    ELSE IF b = <<>> THEN TRUE
    ELSE IdentLess(a, b)

\* Version that orders by precedence but counts equal versions as lower.
Version_le(a, b) ==
    \/ a.major < b.major
    \/ a.major = b.major /\ a.minor < b.minor
    \/ a.major = b.major /\ a.minor = b.minor /\ a.patch < b.patch
    \/ a.major = b.major /\ a.minor = b.minor /\ a.patch = b.patch
         /\ ~PreLess(b.pre, a.pre)

\* `installed_version < latest_version` on semver::Version (derived Ord:
\* major, minor, patch, then pre-release).
Version_lt(a, b) ==
    \/ a.major < b.major
    \/ a.major = b.major /\ a.minor < b.minor
    \/ a.major = b.major /\ a.minor = b.minor /\ a.patch < b.patch
    \/ a.major = b.major /\ a.minor = b.minor /\ a.patch = b.patch
         /\ PreLess(a.pre, b.pre)

\* -------------------------------------------------------------- serde_json

\* A JSON text as the value it denotes; Malformed is a text that is not JSON.
JNull == [type |-> "null", text |-> <<>>, items |-> <<>>, members |-> <<>>]
JString(s) == [type |-> "string", text |-> s, items |-> <<>>, members |-> <<>>]
JNumber(n) == [type |-> "number", text |-> n, items |-> <<>>, members |-> <<>>]
JArray(xs) == [type |-> "array", text |-> <<>>, items |-> xs, members |-> <<>>]
\* ms: the members in order, each a pair <<key, value>>.
JObject(ms) == [type |-> "object", text |-> <<>>, items |-> <<>>, members |-> ms]
Malformed == [type |-> "malformed", text |-> <<>>, items |-> <<>>, members |-> <<>>]

HasMember(doc, key) == \E i \in 1..Len(doc.members) : doc.members[i][1] = key

Member(doc, key) ==
    doc.members[CHOOSE i \in 1..Len(doc.members) : doc.members[i][1] = key][2]

JsonError(what) == Err([kind |-> "json error", what |-> what])

\* Deserialize for `struct PackageJson { version: String }` from a JSON
\* object: other members are ignored, version must be a string.
PackageJson_from_str(doc) ==
    IF doc.type = "malformed" THEN JsonError("syntax")
    ELSE IF doc.type # "object" THEN JsonError("invalid type")
    ELSE IF ~HasMember(doc, "version") THEN JsonError("missing field version")
    ELSE IF Member(doc, "version").type # "string" THEN JsonError("invalid type")
    ELSE Ok([version |-> Member(doc, "version").text])

\* Deserialize for NpmInfoDistTags { latest: Option<String> }: a missing or
\* null latest is None.
NpmInfoDistTags_from(doc) ==
    IF doc.type # "object" THEN JsonError("invalid type")
    ELSE IF ~HasMember(doc, "latest") \/ Member(doc, "latest").type = "null"
    THEN Ok([latest |-> None])
    ELSE IF Member(doc, "latest").type # "string" THEN JsonError("invalid type")
    ELSE Ok([latest |-> <<Member(doc, "latest").text>>])

\* Deserialize for NpmInfo, `rename_all = "kebab-case"`: dist-tags defaults
\* when missing, versions is required and is a list of strings.
NpmInfo_from_slice(doc) ==
    IF doc.type = "malformed" THEN JsonError("syntax")
    ELSE IF doc.type # "object" THEN JsonError("invalid type")
    ELSE IF ~HasMember(doc, "versions") THEN JsonError("missing field versions")
    ELSE IF \/ Member(doc, "versions").type # "array"
            \/ \E i \in 1..Len(Member(doc, "versions").items) :
                  Member(doc, "versions").items[i].type # "string"
    THEN JsonError("invalid type")
    ELSE LET versions == [i \in 1..Len(Member(doc, "versions").items) |->
                            Member(doc, "versions").items[i].text]
             tags == IF HasMember(doc, "dist-tags")
                     THEN NpmInfoDistTags_from(Member(doc, "dist-tags"))
                     ELSE Ok([latest |-> None])
         IN  IF is_err(tags) THEN tags
             ELSE Ok([dist_tags |-> tags.value, versions |-> versions])

\* ------------------------------------------------------- package functions

\* Option::Some for an Option<String>; None is the empty tuple.
Some(v) == <<v>>

\* The version texts that manifests declare and callers pass as latest.
VersionTexts ==
    { <<"1", ".", "2", ".", "0">>,
      <<"1", ".", "1", "0", ".", "0">>,
      <<"2", ".", "0", ".", "0">>,
      <<"2", ".", "0", ".", "0", "-", "r", "c">>,
      <<"1", ".", "2">>,
      <<"v", "1", ".", "2", ".", "0">>,
      <<"0", "1", ".", "2", ".", "0">> }

\* A file of the package directory: whether open succeeds, whether its bytes
\* are UTF-8, and the JSON value its text denotes.
File(open, utf8, json) == [open |-> open, utf8 |-> utf8, json |-> json]

\* fs::File::open
File_open(disk, path) ==
    IF path \notin DOMAIN disk THEN Err([kind |-> "NotFound"])
    ELSE IF disk[path].open # "ok" THEN Err([kind |-> disk[path].open])
    ELSE Ok(disk[path])

\* file.read_to_string(&mut contents)
read_to_string(file) ==
    IF file.utf8 THEN Ok(file.json) ELSE Err([kind |-> "InvalidData"])

\* npm_package_installed_version that takes every open error for a missing
\* package.
npm_package_installed_version_lenient(disk, local_package_directory, name) ==
    LET package_json_path ==
            local_package_directory \o <<"node_modules", name, "package.json">>
        file == File_open(disk, package_json_path)
        contents == read_to_string(file.value)
        package_json == PackageJson_from_str(contents.value)
    IN  IF is_err(file) THEN Ok(None)
        ELSE IF is_err(contents) THEN contents
        ELSE IF is_err(package_json) THEN package_json
        ELSE Ok(Some(package_json.value.version))

\* fn npm_package_installed_version, lines 383-411.
npm_package_installed_version(disk, local_package_directory, name) ==
    LET package_json_path ==
            local_package_directory \o <<"node_modules", name, "package.json">>
        file == File_open(disk, package_json_path)
        contents == read_to_string(file.value)
        package_json == PackageJson_from_str(contents.value)
    IN  IF is_err(file)
        THEN IF file.err.kind = "NotFound" THEN Ok(None) ELSE file
        ELSE IF is_err(contents) THEN contents
        ELSE IF is_err(package_json) THEN package_json
        ELSE Ok(Some(package_json.value.version))

\* fn should_install_npm_package, lines 83-114.
should_install_npm_package(disk, package_name, local_executable_path, local_package_directory, latest_version) ==
    LET lookup == npm_package_installed_version(disk, local_package_directory,
                                                package_name)
        installed_version == Version_parse(lookup.value[1])
        latest == Version_parse(latest_version)
    IN  IF local_executable_path \notin DOMAIN disk THEN TRUE
        ELSE IF is_err(lookup) THEN TRUE
        ELSE IF lookup.value = None THEN TRUE
        ELSE IF is_err(installed_version) THEN TRUE
        ELSE IF is_err(latest) THEN TRUE
        ELSE Version_lt(installed_version.value, latest.value)

\* The argument list npm_package_latest_version passes with `info`.
InfoArgs(name) ==
    <<name, "--json", "--fetch-retry-mintimeout", "2000",
      "--fetch-retry-maxtimeout", "5000", "--fetch-timeout", "5000">>

\* npm_package_latest_version that prefers the versions list to the tag.
latest_of_versions_first(info) ==
    IF info.versions # <<>> THEN Some(info.versions[Len(info.versions)])
    ELSE info.dist_tags.latest

\* `info.dist_tags.latest.or_else(|| info.versions.pop())`
latest_of(info) ==
    IF info.dist_tags.latest # None THEN info.dist_tags.latest
    ELSE IF info.versions # <<>> THEN Some(info.versions[Len(info.versions)])
    ELSE None

\* fn npm_package_latest_version, lines 358-381, from the point where
\* run_npm_subcommand returned output; stdout is the JSON value its bytes
\* denote.
npm_package_latest_version(name, output) ==
    LET info == NpmInfo_from_slice(output.value.stdout)
    IN  IF is_err(output) THEN output
        ELSE IF is_err(info) THEN info
        ELSE IF latest_of(info.value) = None
        THEN Err([kind |-> "no version found for npm package", name |-> name])
        ELSE Ok(latest_of(info.value)[1])

\* -------------------------------------------------------------- the proxy

UpperCase == <<"A", "B", "C", "D", "E", "F", "G", "H", "I", "J", "K", "L", "M",
               "N", "O", "P", "Q", "R", "S", "T", "U", "V", "W", "X", "Y", "Z">>
LowerCase == <<"a", "b", "c", "d", "e", "f", "g", "h", "i", "j", "k", "l", "m",
               "n", "o", "p", "q", "r", "s", "t", "u", "v", "w", "x", "y", "z">>

\* str::to_ascii_lowercase
to_ascii_lowercase(text) ==
    [i \in 1..Len(text) |->
        IF \E k \in 1..26 : UpperCase[k] = text[i]
        THEN LowerCase[CHOOSE k \in 1..26 : UpperCase[k] = text[i]]
        ELSE text[i]]

\* str::replace(from, to): every non-overlapping match, left to right.
RECURSIVE replace(_, _, _)
replace(text, from, to) ==
    IF Len(text) < Len(from) THEN text
    ELSE IF SubSeq(text, 1, Len(from)) = from
    THEN to \o replace(SubSeq(text, Len(from) + 1, Len(text)), from, to)
    ELSE <<text[1]>> \o replace(Tail(text), from, to)

\* A proxy Uri by its parts; userinfo, port and path may be empty.
Uri(scheme, userinfo, host, port, path) ==
    [scheme |-> scheme, userinfo |-> userinfo, host |-> host, port |-> port,
     path |-> path]

\* Uri::to_string
Uri_to_string(uri) ==
    uri.scheme \o <<":", "/", "/">>
        \o (IF uri.userinfo = <<>> THEN <<>> ELSE uri.userinfo \o <<"@">>)
        \o uri.host
        \o (IF uri.port = <<>> THEN <<>> ELSE <<":">> \o uri.port)
        \o uri.path

Localhost == <<"l", "o", "c", "a", "l", "h", "o", "s", "t">>
Loopback == <<"1", "2", "7", ".", "0", ".", "0", ".", "1">>

\* Lines 304-307: the text passed after --proxy.
proxy_argument(uri) ==
    replace(to_ascii_lowercase(Uri_to_string(uri)), Localhost, Loopback)

\* What self.http.proxy() can be: no proxy, the local proxy of the comment at
\* line 300, a remote proxy, a local proxy with credentials, and a proxy
\* whose host name begins with localhost.
Proxies ==
    { None,
      Some(Uri(<<"h", "t", "t", "p">>, <<>>, Localhost, <<"1", "0", "8", "0", "9">>, <<>>)),
      Some(Uri(<<"h", "t", "t", "p">>, <<>>, <<"p", "r", "o", "x", "y", ".", "c", "o", "r", "p">>, <<"8", "0", "8", "0">>, <<>>)),
      Some(Uri(<<"h", "t", "t", "p">>, <<"A", "n", "n", ":", "S", "e", "c", "r", "e", "t">>, Localhost, <<"3", "1", "2", "8">>, <<>>)),
      Some(Uri(<<"h", "t", "t", "p">>, <<>>, <<"l", "o", "c", "a", "l", "h", "o", "s", "t", ".", "c", "o", "r", "p">>, <<"8", "0", "8", "0">>, <<>>)) }

\* --------------------------------------------------------------- commands

\* A string argument, as the one-component OsString it is passed as.
Arg(s) == <<s>>

\* NodePaths::create_node_command: Command::new(&self.node) and env_clear().
create_node_command(paths) ==
    [ program |-> paths.node, env_clear |-> TRUE, env |-> <<>>, args |-> <<>>,
      current_dir |-> None, creation_flags |-> "" ]

\* create_npm_command that passes the user's own npmrc locations through.
create_npm_command_unpinned(paths) ==
    [create_node_command(paths) EXCEPT !.args = <<paths.npm, Arg("--cache"), paths.cache>>]

\* NodePaths::create_npm_command
create_npm_command(paths) ==
    [create_node_command(paths) EXCEPT
        !.args = <<paths.npm, Arg("--cache"), paths.cache,
                   Arg("--userconfig"), user_rc(paths),
                   Arg("--globalconfig"), global_rc(paths)>>]

\* Lines 176-186: the command of the validity probe.
probe_command(paths, target_os) ==
    [create_npm_command(paths) EXCEPT
        !.args = @ \o <<Arg("--version")>>,
        !.creation_flags = IF target_os = "windows" THEN "CREATE_NO_WINDOW" ELSE ""]

\* Lines 260-279: the PATH value of an attempt.
env_path(paths, env) ==
    <<Parent(paths.node), Parent(paths.npm)>>
        \o (IF "PATH" \in DOMAIN env THEN env["PATH"] ELSE <<>>)

\* Lines 312-329: what a Windows build adds to the command's environment.
windows_env(env) ==
    (IF "SYSTEMROOT" \in DOMAIN env THEN "SYSTEMROOT" :> env["SYSTEMROOT"] ELSE <<>>)
        @@ (IF "ComSpec" \in DOMAIN env THEN "ComSpec" :> env["ComSpec"] ELSE <<>>)

\* Lines 299-310: the arguments added for self.http.proxy().
proxy_args(http_proxy) ==
    IF http_proxy = None THEN <<>>
    ELSE <<Arg("--proxy"), proxy_argument(http_proxy[1])>>

\* Lines 289-329: the command of an attempt.
attempt_command(paths, subcommand, args, directory, http_proxy, env, os) ==
    LET base == create_npm_command(paths)
    IN  [base EXCEPT
            !.env = ("PATH" :> env_path(paths, env))
                        @@ (IF os = "windows" THEN windows_env(env) ELSE <<>>),
            !.args = @ \o <<Arg(subcommand)>> \o args
                       \o (IF directory # None THEN <<Arg("--prefix"), directory>> ELSE <<>>)
                       \o proxy_args(http_proxy),
            !.current_dir = directory,
            !.creation_flags = IF os = "windows" THEN "CREATE_NO_WINDOW" ELSE ""]

\* The argument list npm_install_packages passes with `install`, for one
\* package.
InstallArgs ==
    <<Arg("typescript@2.0.0"), Arg("--save-exact"), Arg("--fetch-retry-mintimeout"),
      Arg("2000"), Arg("--fetch-retry-maxtimeout"), Arg("5000"),
      Arg("--fetch-timeout"), Arg("5000")>>

\* The directory and args the callers of run_npm_subcommand pass with each
\* subcommand: npm_package_latest_version and npm_install_packages.
CallDirectory(subcommand) ==
    IF subcommand = "install" THEN <<"languages", "typescript">> ELSE None

CallArgs(subcommand) ==
    IF subcommand = "install" THEN InstallArgs
    ELSE [i \in 1..Len(InfoArgs("typescript")) |-> Arg(InfoArgs("typescript")[i])]

\* The environments of the process: without PATH, a Unix one, a Windows one.
ProcessEnvs ==
    { "HOME" :> <<"home", "ann">>,
      ("PATH" :> << <<"usr", "local", "bin">>, <<"usr", "bin">> >>)
          @@ ("HOME" :> <<"home", "ann">>),
      ("PATH" :> << <<"C:", "Windows", "system32">>, <<"C:", "Tools">> >>)
          @@ ("SYSTEMROOT" :> <<"C:", "Windows">>)
          @@ ("ComSpec" :> <<"C:", "Windows", "system32", "cmd.exe">>) }

\* The environment of the other specifications.
DefaultEnv == "PATH" :> << <<"usr", "bin">> >>

\* ------------------------------------------------------------------ state

VARIABLES
    target_os,        \* consts::OS of the build
    target_arch,      \* consts::ARCH of the build
    files,            \* the paths that exist on disk
    settings,         \* lock.0: the effective NodeRuntimeSettings
    pending_settings, \* the mpsc channel from configure to install_if_needed
    lock_owner,       \* the task holding the settings Mutex, 0 when free
    task,             \* each task's position and locals
    callers,          \* how many of the tasks call into the runtime
    n_calls,          \* high-level operations started so far
    n_configure,      \* configure calls made so far
    configure_budget, \* configure calls the settings observer makes in all
    call_budget,      \* high-level operations the callers start in all
    package_files,    \* the files of the local package directory
    package_call,     \* the last call of a package function and its result
    proxy,            \* self.http.proxy()
    process_env       \* the environment variables of the process

\* What the runtime is given and never changes.
process_vars == <<proxy, process_env>>

\* What the package functions read and answer.
package_vars == <<package_files, package_call>>

\* The runtime, its callers and the disk it manages.
runtime_vars == <<target_os, target_arch, files, settings, pending_settings,
                  lock_owner, task, callers, n_calls, n_configure, configure_budget,
                  call_budget>>

vars == <<runtime_vars, package_vars, process_vars>>

\* A task that runs no operation.
IdleTask ==
    [ pc |-> "idle",          \* the await point the task is at
      op |-> "none",          \* binary_path or run_npm_subcommand
      subcommand |-> "",
      directory |-> None,     \* the directory argument of run_npm_subcommand
      args |-> <<>>,          \* the args argument of run_npm_subcommand
      commands |-> <<>>,      \* the commands built so far, probes included
      fs_calls |-> <<>>,      \* the housekeeping calls made so far
      attempt |-> 0,          \* which call of the attempt closure runs
      paths |-> NoPaths,      \* the NodePaths of the current install_if_needed
      outputs |-> <<>>,       \* what each finished attempt returned
      layouts |-> <<>>,       \* the NodePaths each install_if_needed call computed
      probes |-> 0,           \* validity probes run for this operation
      gets |-> 0,             \* HTTP GETs of the current install_if_needed
      valid |-> FALSE,        \* the probe result of the current install_if_needed
      has_override |-> FALSE, \* has_override of the current install_if_needed
      fs0 |-> {},             \* files when the current install_if_needed took the lock
      result |-> NoResult ]

\* A local package directory that holds nothing.
NoPackages == <<>>

\* No package function was called yet.
NoCall == [op |-> "none"]

\* The state after RealNodeRuntime::new, on a disk that holds no managed
\* installation or a complete one.
Constructed ==
    /\ files \in IF Released(target_os, target_arch)
                 THEN {SystemFiles, InstalledFiles(target_os, target_arch)}
                 ELSE {SystemFiles}
    /\ settings = DefaultSettings
    /\ pending_settings = <<>>
    /\ lock_owner = 0
    /\ task = [t \in Tasks |-> IdleTask]
    /\ n_calls = 0
    /\ n_configure = 0
    /\ package_files = NoPackages
    /\ package_call = NoCall

\* Concurrent callers on one supported build.
Init ==
    /\ target_os = "linux"
    /\ target_arch = "x86_64"
    /\ callers = NumTasks
    /\ configure_budget = MaxConfigure
    /\ call_budget = MaxCalls
    /\ proxy = None
    /\ process_env = DefaultEnv
    /\ Constructed

\* One caller on every build, supported or not.
InitOneCaller ==
    /\ target_os \in OsValues
    /\ target_arch \in ArchValues
    /\ callers = 1
    /\ configure_budget = MaxConfigure
    /\ call_budget = MaxCalls
    /\ proxy = None
    /\ process_env = DefaultEnv
    /\ Constructed

\* What an installation of an earlier VERSION left below node_containing_dir.
OlderVersionFiles ==
    { node_containing_dir,
      Join(node_containing_dir, <<"node-v20.11.0-linux-x64">>),
      Join(node_containing_dir, <<"node-v20.11.0-linux-x64", "bin">>),
      Join(node_containing_dir, <<"node-v20.11.0-linux-x64", "bin", "node">>) }

\* One caller on one supported build with more of a past: the disk may hold
\* an older version next to or instead of the current one, or lack the
\* directory in which a cache override lies, and the settings
\* observer publishes once more than elsewhere, so that values queue up and
\* follow applied ones.
InitOneBuild ==
    /\ target_os = "linux"
    /\ target_arch = "x86_64"
    /\ callers = 1
    /\ configure_budget = MaxConfigure + 1
    /\ call_budget = MaxCalls
    /\ proxy = None
    /\ process_env = DefaultEnv
    /\ files \in { SystemFiles, InstalledFiles(target_os, target_arch),
                    SystemFiles \cup OlderVersionFiles,
                    InstalledFiles(target_os, target_arch) \cup OlderVersionFiles,
                    InstalledFiles(target_os, target_arch) \ {TmpDir} }
    /\ settings = DefaultSettings
    /\ pending_settings = <<>>
    /\ lock_owner = 0
    /\ task = [t \in Tasks |-> IdleTask]
    /\ n_calls = 0
    /\ n_configure = 0
    /\ package_files = NoPackages
    /\ package_call = NoCall

\* One caller on a Unix and on a Windows build, behind each proxy and in each
\* process environment.
InitCommands ==
    /\ target_os \in {"linux", "windows"}
    /\ target_arch = "x86_64"
    /\ callers = 1
    /\ configure_budget = MaxConfigure
    /\ call_budget = MaxCalls
    /\ proxy \in Proxies
    /\ process_env \in ProcessEnvs
    /\ Constructed

\* A task whose first attempt of run_npm_subcommand found a valid managed
\* installation and awaits the output of the process it spawned.
Running(subcommand) ==
    LET paths == NodePaths(DefaultSettings, node_dir("linux", "x64"), "linux")
    IN  [IdleTask EXCEPT
            !.pc = "running", !.op = "run_npm_subcommand",
            !.subcommand = subcommand, !.attempt = 1,
            !.directory = CallDirectory(subcommand),
            !.args = CallArgs(subcommand),
            !.paths = paths, !.layouts = <<paths>>, !.probes = 1,
            !.fs_calls = housekeeping_calls(paths),
            !.commands = << probe_command(paths, "linux"),
                            attempt_command(paths, subcommand, CallArgs(subcommand),
                                            CallDirectory(subcommand), None,
                                            DefaultEnv, "linux") >>]

\* Two calls of run_npm_subcommand on a valid installation have spawned their
\* processes and neither process has exited.
TwoSubprocessesRunning ==
    /\ target_os = "linux"
    /\ target_arch = "x86_64"
    /\ proxy = None
    /\ process_env = DefaultEnv
    /\ files = InstalledFiles("linux", "x86_64")
    /\ settings = DefaultSettings
    /\ pending_settings = <<>>
    /\ lock_owner = 0
    /\ task = [t \in Tasks |-> IF t = 1 THEN Running("info")
                               ELSE IF t = 2 THEN Running("install")
                               ELSE IdleTask]
    /\ n_calls = 2
    /\ n_configure = 0
    /\ package_files = NoPackages
    /\ package_call = NoCall

\* Three callers, taken up where two of them have their processes running:
\* one more operation is started, by the third caller or by one of the two
\* after its process exited.
InitThirdCaller ==
    /\ callers = NumTasks
    /\ configure_budget = MaxConfigure
    /\ call_budget = MaxCalls + 1
    /\ TwoSubprocessesRunning

\* A task whose binary_path call took the lock on disk fs under the default
\* settings and is about to probe.
FirstCallProbing(fs) ==
    LET paths == NodePaths(DefaultSettings, node_dir("linux", "x64"), "linux")
    IN  [IdleTask EXCEPT
            !.pc = "probe", !.op = "binary_path",
            !.paths = paths, !.layouts = <<paths>>, !.fs0 = fs]

\* Two concurrent callers: on a supported build, taken up where the first
\* caller holds the lock and the second has yet to call; on a build for an
\* unsupported system or architecture, from construction.
InitFair ==
    /\ callers = 2
    /\ configure_budget = MaxConfigure
    /\ call_budget = MaxCalls
    /\ proxy = None
    /\ process_env = DefaultEnv
    /\ \/ /\ target_os = "linux"
          /\ target_arch = "x86_64"
          /\ files \in {SystemFiles, InstalledFiles("linux", "x86_64")}
          /\ settings = DefaultSettings
          /\ pending_settings = <<>>
          /\ lock_owner = 1
          /\ task = [t \in Tasks |-> IF t = 1 THEN FirstCallProbing(files)
                                     ELSE IdleTask]
          /\ n_calls = 1
          /\ n_configure = 0
          /\ package_files = NoPackages
          /\ package_call = NoCall
       \/ /\ \/ target_os = "freebsd" /\ target_arch = "x86_64"
             \/ target_os = "linux" /\ target_arch = "riscv64"
          /\ Constructed

\* ------------------------------------------------- run_npm_subcommand tail

\* The error of lines 338-341: the subcommand and the failed attempt's error.
LaunchError(subcommand, e) ==
    [kind |-> "failed to launch npm subcommand", subcommand |-> subcommand, err |-> e]

\* The error of lines 347-351: the subcommand and the decoded streams.
ExecuteError(subcommand, output) ==
    [ kind |-> "failed to execute npm subcommand", subcommand |-> subcommand,
      stdout |-> from_utf8_lossy(output.stdout),
      stderr |-> from_utf8_lossy(output.stderr) ]

\* retries that calls the closure again after every failed attempt.
retries_every_error(n, output) == is_err(output)

\* retries that calls the closure again only after a spawn failure.
retries_spawn_only(n, output) ==
    n = 1 /\ is_err(output) /\ output.err.kind = "io error spawning"

\* retries that also calls the closure again after a non-zero exit.
retries_bad_exit(n, output) ==
    n = 1 /\ (is_err(output) \/ output.value.status # 0)

\* `if output.is_err() { output = attempt().await; ... }`: whether the attempt
\* closure is called again after attempt number n returned output.
retries(n, output) == n = 1 /\ is_err(output)

\* Lines 334-355, from the point where attempt number l.attempt returned
\* output: start the second attempt, or produce the operation's result.
AttemptReturned(l, output) ==
    LET seen == [l EXCEPT !.outputs = Append(@, output)]
    IN  IF retries(l.attempt, output)
        THEN [seen EXCEPT !.attempt = 2, !.pc = "lock", !.paths = NoPaths]
        ELSE [seen EXCEPT
                !.pc = "done", !.paths = NoPaths,
                !.result =
                    IF is_err(output)
                    THEN Err(LaunchError(l.subcommand, output.err))
                    ELSE IF output.value.status # 0
                    THEN Err(ExecuteError(l.subcommand, output.value))
                    ELSE output]

\* install_if_needed returned r to its caller: binary_path (lines 243-244)
\* or the attempt closure (line 258 onwards).
InstallReturned(l, r) ==
    LET back == [l EXCEPT !.gets = 0, !.valid = FALSE, !.has_override = FALSE,
                          !.fs0 = {}]
    IN  IF l.op = "binary_path"
        THEN [back EXCEPT !.pc = "done", !.paths = NoPaths,
                          !.result = IF is_err(r) THEN r ELSE Ok(r.value.node)]
        ELSE IF is_err(r) THEN AttemptReturned(back, r)
        ELSE [back EXCEPT !.pc = "check_node"]

\* ---------------------------------------------------------------- actions

\* configure that stores the value into the effective settings at once.
configure_direct(s) ==
    /\ n_configure < configure_budget
    /\ settings' = s
    /\ n_configure' = n_configure + 1
    /\ UNCHANGED <<process_vars, package_vars, configure_budget, call_budget, callers, target_os, target_arch, files, pending_settings, lock_owner,
                   task, n_calls>>

\* configure that waits for the settings Mutex before it sends.
configure_locking(s) ==
    /\ n_configure < configure_budget
    /\ lock_owner = 0
    /\ pending_settings' = Append(pending_settings, s)
    /\ n_configure' = n_configure + 1
    /\ UNCHANGED <<process_vars, package_vars, configure_budget, call_budget, callers, target_os, target_arch, files, settings, lock_owner, task,
                   n_calls>>

\* fn configure: send on the channel; takes no lock.
configure(s) ==
    /\ n_configure < configure_budget
    /\ pending_settings' = Append(pending_settings, s)
    /\ n_configure' = n_configure + 1
    /\ UNCHANGED <<process_vars, package_vars, configure_budget, call_budget, callers, target_os, target_arch, files, settings, lock_owner, task, n_calls>>

\* The callers are interchangeable: a caller makes its first call only after
\* every caller numbered below it has made one.
may_call(t) ==
    /\ t <= callers
    /\ task[t].pc \in {"idle", "done"}
    /\ \A u \in Tasks : u < t => task[u].pc # "idle"

\* A caller enters binary_path and reaches self.settings.lock().await.
binary_path(t) ==
    /\ may_call(t)
    /\ n_calls < call_budget
    /\ task' = [task EXCEPT ![t] =
                  [IdleTask EXCEPT !.pc = "lock", !.op = "binary_path"]]
    /\ n_calls' = n_calls + 1
    /\ UNCHANGED <<process_vars, package_vars, configure_budget, call_budget, callers, target_os, target_arch, files, settings, pending_settings,
                   lock_owner, n_configure>>

\* A caller enters run_npm_subcommand; its first attempt reaches the lock.
run_npm_subcommand(t, subcommand) ==
    /\ may_call(t)
    /\ n_calls < call_budget
    /\ task' = [task EXCEPT ![t] =
                  [IdleTask EXCEPT !.pc = "lock", !.op = "run_npm_subcommand",
                                   !.subcommand = subcommand, !.attempt = 1,
                                   !.directory = CallDirectory(subcommand),
                                   !.args = CallArgs(subcommand)]]
    /\ n_calls' = n_calls + 1
    /\ UNCHANGED <<process_vars, package_vars, configure_budget, call_budget, callers, target_os, target_arch, files, settings, pending_settings,
                   lock_owner, n_configure>>

\* A lock that never makes a caller wait.
can_lock_unguarded == TRUE

\* self.settings.lock().await completes only when no task holds the Mutex.
can_lock == lock_owner = 0

\* install_if_needed, lines 134-174: take the lock, drain the channel, map the
\* platform, compute has_override and the NodePaths; the probe is spawned next.
install_lock(t) ==
    LET l == task[t]
        s == Drain(settings, pending_settings)
        os == OsToken(target_os)
        arch == ArchToken(target_arch)
        paths == NodePaths(s, node_dir(os, arch), target_os)
        entered == [l EXCEPT !.fs0 = files, !.has_override = has_override(s)]
    IN  /\ l.pc = "lock"
        /\ can_lock
        /\ settings' = s
        /\ pending_settings' = <<>>
        /\ IF os = ""
           THEN /\ task' = [task EXCEPT ![t] = InstallReturned(entered,
                             Err([kind |-> "Running on unsupported os",
                                  other |-> target_os]))]
                /\ lock_owner' = 0
           ELSE IF arch = ""
           THEN /\ task' = [task EXCEPT ![t] = InstallReturned(entered,
                             Err([kind |-> "Running on unsupported architecture",
                                  other |-> target_arch]))]
                /\ lock_owner' = 0
           ELSE /\ task' = [task EXCEPT ![t] =
                             [entered EXCEPT !.pc = "probe", !.paths = paths,
                                             !.layouts = Append(@, paths)]]
                /\ lock_owner' = t
        /\ UNCHANGED <<process_vars, package_vars, configure_budget, call_budget, callers, target_os, target_arch, files, n_calls, n_configure>>

\* A probe that trusts the exit status it is told, whatever is on disk.
probe_valid_exit_only(fs, paths, exit_zero) == exit_zero

\* `matches!(result, Ok(status) if status.success())`: node must be there to
\* spawn, npm must be there for node to run it, and the run must exit zero.
probe_valid(fs, paths, exit_zero) ==
    metadata_ok(fs, paths.node) /\ metadata_ok(fs, paths.npm) /\ exit_zero

\* install_probe that reinstalls a managed installation whatever the probe
\* said.
install_probe_reinstalling(t) ==
    LET l == task[t] IN
    /\ l.pc = "probe"
    /\ \E exit_zero \in BOOLEAN :
         LET valid == probe_valid(files, l.paths, exit_zero)
             probed == [l EXCEPT !.probes = @ + 1, !.valid = valid,
                                 !.commands = Append(@, probe_command(l.paths, target_os))]
         IN  IF l.has_override
             THEN IF valid
                  THEN /\ task' = [task EXCEPT ![t] = [probed EXCEPT !.pc = "housekeep"]]
                       /\ UNCHANGED lock_owner
                  ELSE /\ task' = [task EXCEPT ![t] = InstallReturned(probed,
                                    Err([kind |-> "node override could not be executed",
                                         node |-> l.paths.node]))]
                       /\ lock_owner' = 0
             ELSE /\ task' = [task EXCEPT ![t] = [probed EXCEPT !.pc = "remove"]]
                  /\ UNCHANGED lock_owner
    /\ UNCHANGED <<process_vars, package_vars, configure_budget, call_budget, callers, target_os,
                   target_arch, files, settings, pending_settings, n_calls, n_configure>>

\* install_if_needed, lines 176-193: the `--version` probe and what follows.
install_probe(t) ==
    LET l == task[t] IN
    /\ l.pc = "probe"
    /\ \E exit_zero \in BOOLEAN :
         LET valid == probe_valid(files, l.paths, exit_zero)
             probed == [l EXCEPT !.probes = @ + 1, !.valid = valid,
                                 !.commands = Append(@, probe_command(l.paths, target_os))]
         IN  IF valid
             THEN /\ task' = [task EXCEPT ![t] = [probed EXCEPT !.pc = "housekeep"]]
                  /\ UNCHANGED lock_owner
             ELSE IF l.has_override
             THEN /\ task' = [task EXCEPT ![t] = InstallReturned(probed,
                               Err([kind |-> "node override could not be executed",
                                    node |-> l.paths.node]))]
                  /\ lock_owner' = 0
             ELSE /\ task' = [task EXCEPT ![t] = [probed EXCEPT !.pc = "remove"]]
                  /\ UNCHANGED lock_owner
    /\ UNCHANGED <<process_vars, package_vars, configure_budget, call_budget, callers, target_os, target_arch, files, settings, pending_settings,
                   n_calls, n_configure>>

\* install_remove that removes the directory of the current version only.
install_remove_version_dir(t) ==
    LET l == task[t] IN
    /\ l.pc = "remove"
    /\ \E removed \in BOOLEAN :
         files' = IF removed
                  THEN remove_dir_all(files, node_dir(OsToken(target_os),
                                                      ArchToken(target_arch)))
                  ELSE files
    /\ task' = [task EXCEPT ![t] = [l EXCEPT !.pc = "create"]]
    /\ UNCHANGED <<process_vars, package_vars, configure_budget, call_budget, callers, target_os,
                   target_arch, settings, pending_settings, lock_owner, n_calls,
                   n_configure>>

\* Line 195: `_ = fs::remove_dir_all(&node_containing_dir).await;` the tree is
\* removed, or the call fails and its error is dropped.
install_remove(t) ==
    LET l == task[t] IN
    /\ l.pc = "remove"
    /\ \E removed \in BOOLEAN :
         files' = IF removed THEN remove_dir_all(files, node_containing_dir) ELSE files
    /\ task' = [task EXCEPT ![t] = [l EXCEPT !.pc = "create"]]
    /\ UNCHANGED <<process_vars, package_vars, configure_budget, call_budget, callers, target_os, target_arch, settings, pending_settings, lock_owner,
                   n_calls, n_configure>>

\* Lines 196-204: fs::create_dir(&node_containing_dir) with `?`.
install_create(t) ==
    LET l == task[t] IN
    /\ l.pc = "create"
    /\ IF create_dir_ok(files, node_containing_dir)
       THEN /\ files' = create_dir(files, node_containing_dir)
            /\ task' = [task EXCEPT ![t] = [l EXCEPT !.pc = "download"]]
            /\ UNCHANGED lock_owner
       ELSE /\ task' = [task EXCEPT ![t] = InstallReturned(l,
                         Err([kind |-> "error creating node containing dir"]))]
            /\ lock_owner' = 0
            /\ UNCHANGED files
    /\ UNCHANGED <<process_vars, package_vars, configure_budget, call_budget, callers, target_os, target_arch, settings, pending_settings,
                   n_calls, n_configure>>

\* install_download whose error return leaves the guard behind.
install_download_leaking(t) ==
    LET l == task[t]
        got == [l EXCEPT !.gets = @ + 1]
    IN  /\ l.pc = "download"
        /\ \E ok \in BOOLEAN :
             task' = [task EXCEPT ![t] =
                        IF ok THEN [got EXCEPT !.pc = "extract"]
                        ELSE InstallReturned(got,
                               Err([kind |-> "error downloading Node binary tarball"]))]
        /\ UNCHANGED <<process_vars, package_vars, configure_budget, call_budget, callers,
                       target_os, target_arch, files, settings, pending_settings,
                       lock_owner, n_calls, n_configure>>

\* Lines 206-218: the HTTP GET of the archive, with `?`.
install_download(t) ==
    LET l == task[t]
        got == [l EXCEPT !.gets = @ + 1]
    IN  /\ l.pc = "download"
        /\ \E ok \in BOOLEAN :
             IF ok
             THEN /\ task' = [task EXCEPT ![t] = [got EXCEPT !.pc = "extract"]]
                  /\ UNCHANGED lock_owner
             ELSE /\ task' = [task EXCEPT ![t] = InstallReturned(got,
                               Err([kind |-> "error downloading Node binary tarball"]))]
                  /\ lock_owner' = 0
        /\ UNCHANGED <<process_vars, package_vars, configure_budget, call_budget, callers, target_os, target_arch, files, settings, pending_settings,
                       n_calls, n_configure>>

\* Lines 220-228: unpack into node_containing_dir, with `?`; a failing unpack
\* may have written the entries that came before the failure.
install_extract(t) ==
    LET l == task[t]
        entries == ArchiveEntries(OsToken(target_os), ArchToken(target_arch), target_os)
        top == {e \in entries : Len(e) = 1}
        through_node == NodeEntries(OsToken(target_os), ArchToken(target_arch), target_os)
    IN  /\ l.pc = "extract"
        /\ \/ /\ files' = unpack(files, node_containing_dir, entries)
              /\ task' = [task EXCEPT ![t] = [l EXCEPT !.pc = "housekeep"]]
              /\ UNCHANGED lock_owner
           \/ /\ \E partial \in {{}, top, through_node} :
                    files' = unpack(files, node_containing_dir, partial)
              /\ task' = [task EXCEPT ![t] = InstallReturned(l,
                             Err([kind |-> "error unpacking archive"]))]
              /\ lock_owner' = 0
        /\ UNCHANGED <<process_vars, package_vars, configure_budget, call_budget, callers, target_os, target_arch, settings, pending_settings,
                       n_calls, n_configure>>

\* install_housekeep that returns the error of a cache directory it could
\* not create.
install_housekeep_strict(t) ==
    LET l == task[t]
        kept == [l EXCEPT !.fs_calls = @ \o housekeeping_calls(l.paths)]
    IN
    /\ l.pc = "housekeep"
    /\ files' = housekeeping(files, l.paths)
    /\ lock_owner' = 0
    /\ task' = [task EXCEPT ![t] =
                  IF create_dir_ok(files, l.paths.cache)
                  THEN InstallReturned(kept, Ok(l.paths))
                  ELSE InstallReturned(kept, Err([kind |-> "error creating cache dir"]))]
    /\ UNCHANGED <<process_vars, package_vars, configure_budget, call_budget, callers, target_os,
                   target_arch, settings, pending_settings, n_calls, n_configure>>

\* install_housekeep whose caller keeps the guard for the rest of its
\* attempt.
install_housekeep_holding(t) ==
    LET l == task[t]
        kept == [l EXCEPT !.fs_calls = @ \o housekeeping_calls(l.paths)]
    IN
    /\ l.pc = "housekeep"
    /\ files' = housekeeping(files, l.paths)
    /\ lock_owner' = IF l.op = "run_npm_subcommand" THEN t ELSE 0
    /\ task' = [task EXCEPT ![t] = InstallReturned(kept, Ok(l.paths))]
    /\ UNCHANGED <<process_vars, package_vars, configure_budget, call_budget, callers,
                   target_os, target_arch, settings, pending_settings, n_calls,
                   n_configure>>

\* Lines 231-236: the best-effort cache directory and rc files, then
\* `anyhow::Ok(paths)`; the guard is dropped and the caller continues.
install_housekeep(t) ==
    LET l == task[t]
        kept == [l EXCEPT !.fs_calls = @ \o housekeeping_calls(l.paths)]
    IN
    /\ l.pc = "housekeep"
    /\ files' = housekeeping(files, l.paths)
    /\ lock_owner' = 0
    /\ task' = [task EXCEPT ![t] = InstallReturned(kept, Ok(l.paths))]
    /\ UNCHANGED <<process_vars, package_vars, configure_budget, call_budget, callers, target_os, target_arch, settings, pending_settings,
                   n_calls, n_configure>>

\* attempt_check_node that goes on to the npm entry whatever it found.
attempt_check_node_unchecked(t) ==
    LET l == task[t] IN
    /\ l.pc = "check_node"
    /\ task' = [task EXCEPT ![t] = [l EXCEPT !.pc = "check_npm"]]
    /\ UNCHANGED <<process_vars, package_vars, configure_budget, call_budget, callers,
                   target_os, target_arch, files, settings, pending_settings,
                   lock_owner, n_calls, n_configure>>

\* Lines 281-283: smol::fs::metadata(&paths.node).
attempt_check_node(t) ==
    LET l == task[t] IN
    /\ l.pc = "check_node"
    /\ task' = [task EXCEPT ![t] =
                  IF metadata_ok(files, l.paths.node)
                  THEN [l EXCEPT !.pc = "check_npm"]
                  ELSE AttemptReturned(l, Err([kind |-> "missing node binary file"]))]
    /\ UNCHANGED <<process_vars, package_vars, configure_budget, call_budget, callers, target_os, target_arch, files, settings, pending_settings,
                   lock_owner, n_calls, n_configure>>

\* Lines 285-287: smol::fs::metadata(&paths.npm).
attempt_check_npm(t) ==
    LET l == task[t] IN
    /\ l.pc = "check_npm"
    /\ task' = [task EXCEPT ![t] =
                  IF metadata_ok(files, l.paths.npm)
                  THEN [l EXCEPT !.pc = "spawn"]
                  ELSE AttemptReturned(l, Err([kind |-> "missing npm file"]))]
    /\ UNCHANGED <<process_vars, package_vars, configure_budget, call_budget, callers, target_os, target_arch, files, settings, pending_settings,
                   lock_owner, n_calls, n_configure>>

\* Lines 289-331, first half of command.output(): the process is spawned, or
\* spawning fails with an io::Error.
attempt_spawn(t) ==
    LET l == task[t]
        command == attempt_command(l.paths, l.subcommand, l.args, l.directory,
                                   proxy, process_env, target_os)
        built == [l EXCEPT !.commands = Append(@, command)]
    IN
    /\ l.pc = "spawn"
    /\ \E spawned \in BOOLEAN :
         task' = [task EXCEPT ![t] =
                    IF spawned /\ metadata_ok(files, l.paths.node)
                    THEN [built EXCEPT !.pc = "running"]
                    ELSE AttemptReturned(built, Err([kind |-> "io error spawning"]))]
    /\ UNCHANGED <<process_vars, package_vars, configure_budget, call_budget, callers, target_os, target_arch, files, settings, pending_settings,
                   lock_owner, n_calls, n_configure>>

\* Line 331, second half of command.output(): the process exits and its
\* status and streams are collected.
attempt_exit(t) ==
    LET l == task[t] IN
    /\ l.pc = "running"
    /\ \E output \in ProcessOutputs :
         task' = [task EXCEPT ![t] = AttemptReturned(l, Ok(output))]
    /\ UNCHANGED <<process_vars, package_vars, configure_budget, call_budget, callers, target_os, target_arch, files, settings, pending_settings,
                   lock_owner, n_calls, n_configure>>

Next ==
    \/ \E s \in SettingsValues : configure(s)
    \/ \E t \in Tasks : binary_path(t)
    \/ \E t \in Tasks, subcommand \in Subcommands : run_npm_subcommand(t, subcommand)
    \/ \E t \in Tasks : install_lock(t)
    \/ \E t \in Tasks : install_probe(t)
    \/ \E t \in Tasks : install_remove(t)
    \/ \E t \in Tasks : install_create(t)
    \/ \E t \in Tasks : install_download(t)
    \/ \E t \in Tasks : install_extract(t)
    \/ \E t \in Tasks : install_housekeep(t)
    \/ \E t \in Tasks : attempt_check_node(t)
    \/ \E t \in Tasks : attempt_check_npm(t)
    \/ \E t \in Tasks : attempt_spawn(t)
    \/ \E t \in Tasks : attempt_exit(t)

Spec == Init /\ [][Next]_vars

SpecOneCaller == InitOneCaller /\ [][Next]_vars

SpecCommands == InitCommands /\ [][Next]_vars

SpecOneBuild == InitOneBuild /\ [][Next]_vars

SpecThirdCaller == InitThirdCaller /\ [][Next]_vars

\* The steps of task t once its operation has begun: each is the completion
\* of the future the task awaits.
TaskStep(t) ==
    \/ install_lock(t)
    \/ install_probe(t)
    \/ install_remove(t)
    \/ install_create(t)
    \/ install_download(t)
    \/ install_extract(t)
    \/ install_housekeep(t)
    \/ attempt_check_node(t)
    \/ attempt_check_npm(t)
    \/ attempt_spawn(t)
    \/ attempt_exit(t)

\* The executor polls every task whose awaited future can complete: a probe,
\* a filesystem call, a download or a process that can end does end, and a
\* task waiting for a free Mutex is woken.
Fairness == \A t \in Tasks : WF_vars(TaskStep(t))

SpecFair == InitFair /\ [][Next]_vars /\ Fairness

\* ------------------------------------------------- package function calls

\* The local package directory of a language server and its executable.
PackageDirectory == <<"languages", "typescript">>
LocalExecutable == PackageDirectory \o <<"node_modules", ".bin", "tsserver">>
PackageNames == {"typescript", "eslint"}

\* package.json texts: not JSON, not an object, without version, with a
\* version that is no string, and with each of the version texts.
ManifestDocs ==
    { Malformed, JString(<<"1", ".", "2", ".", "0">>), JObject(<<>>),
      JObject(<< <<"name", JString(<<"t">>)>> >>),
      JObject(<< <<"version", JNumber(<<"1">>)>> >>) }
    \cup { JObject(<< <<"name", JString(<<"t">>)>>, <<"version", JString(v)>> >>) :
            v \in VersionTexts }

\* The states of node_modules/typescript/package.json when it exists.
ManifestFiles ==
    { File("PermissionDenied", TRUE, JObject(<<>>)),
      File("ok", FALSE, JObject(<<>>)) }
    \cup { File("ok", TRUE, doc) : doc \in ManifestDocs }

\* The project's own manifest, next to node_modules.
ProjectManifest ==
    (PackageDirectory \o <<"package.json">>) :>
        File("ok", TRUE, JObject(<< <<"version", JString(<<"2", ".", "0", ".", "0">>)>> >>))

\* The disks the package functions are called on: the executable is there or
\* not, the package's manifest is missing or in one of its states.
PackageDisks ==
    LET manifest == PackageDirectory \o <<"node_modules", "typescript", "package.json">>
        with_manifest == {ProjectManifest} \cup
                         {ProjectManifest @@ (manifest :> f) : f \in ManifestFiles}
    IN  with_manifest \cup
        {d @@ (LocalExecutable :> File("ok", FALSE, Malformed)) : d \in with_manifest}

\* What `npm info <name> --json` prints on success.
InfoDocs ==
    LET v1 == JString(<<"1", ".", "2", ".", "0">>)
        v2 == JString(<<"2", ".", "0", ".", "0">>)
        v3 == JString(<<"2", ".", "0", ".", "0", "-", "r", "c">>)
        tag(t) == JObject(<< <<"latest", t>> >>)
    IN  { JObject(<< <<"dist-tags", tag(v2)>>, <<"versions", JArray(<<v1, v2, v3>>)>> >>),
          JObject(<< <<"dist-tags", tag(v2)>>, <<"versions", JArray(<<>>)>> >>),
          JObject(<< <<"dist-tags", tag(JNull)>>, <<"versions", JArray(<<v1, v2>>)>> >>),
          JObject(<< <<"dist-tags", JObject(<<>>)>>, <<"versions", JArray(<<v1>>)>> >>),
          JObject(<< <<"dist-tags", JObject(<<>>)>>, <<"versions", JArray(<<>>)>> >>),
          JObject(<< <<"versions", JArray(<<v1, v3>>)>> >>),
          JObject(<< <<"versions", JArray(<<>>)>> >>),
          JObject(<< <<"dist_tags", tag(v2)>>, <<"versions", JArray(<<v1>>)>> >>),
          JObject(<< <<"dist-tags", tag(v2)>> >>),
          JObject(<< <<"dist-tags", tag(JNumber(<<"2">>))>>, <<"versions", JArray(<<v1>>)>> >>),
          JObject(<< <<"versions", v1>> >>),
          Malformed }

\* What run_npm_subcommand(None, "info", args) returns to
\* npm_package_latest_version: one of its two errors, or the output of a
\* process that exited with status zero.
InfoResults ==
    { Err(LaunchError("info", [kind |-> "io error spawning"])),
      Err(ExecuteError("info", [status |-> 1, stdout |-> <<>>, stderr |-> <<69>>])) }
    \cup { Ok([status |-> 0, stdout |-> doc, stderr |-> <<>>]) : doc \in InfoDocs }

\* A task inside install_if_needed, at the probe, with the lock.
Probing ==
    [IdleTask EXCEPT
        !.pc = "probe", !.op = "binary_path",
        !.paths = NodePaths(DefaultSettings, node_dir("linux", "x64"), "linux"),
        !.layouts = <<NodePaths(DefaultSettings, node_dir("linux", "x64"), "linux")>>,
        !.fs0 = InstalledFiles("linux", "x86_64")]

\* The package functions are called on a constructed runtime, while no
\* install_if_needed runs or while a task runs one and holds the lock.
InitPackages ==
    /\ target_os = "linux"
    /\ target_arch = "x86_64"
    /\ callers = 1
    /\ configure_budget = MaxConfigure
    /\ call_budget = MaxCalls
    /\ files = InstalledFiles("linux", "x86_64")
    /\ settings = DefaultSettings
    /\ pending_settings = <<>>
    /\ n_configure = 0
    /\ \/ /\ lock_owner = 0
          /\ task = [t \in Tasks |-> IdleTask]
          /\ n_calls = 0
       \/ /\ lock_owner = 1
          /\ task = [t \in Tasks |-> IF t = 1 THEN Probing ELSE IdleTask]
          /\ n_calls = 1
    /\ package_files \in PackageDisks
    /\ package_call = NoCall
    /\ proxy = None
    /\ process_env = DefaultEnv

\* A caller awaits npm_package_installed_version(dir, name).
call_installed_version(name) ==
    /\ package_call' =
          [ op |-> "npm_package_installed_version", name |-> name,
            result |-> npm_package_installed_version(package_files,
                                                     PackageDirectory, name) ]
    /\ UNCHANGED <<runtime_vars, process_vars, package_files>>

\* A caller awaits should_install_npm_package(name, exe, dir, latest).
call_should_install(name, latest_version) ==
    /\ package_call' =
          [ op |-> "should_install_npm_package", name |-> name,
            latest_version |-> latest_version,
            result |-> should_install_npm_package(package_files, name,
                          LocalExecutable, PackageDirectory, latest_version) ]
    /\ UNCHANGED <<runtime_vars, process_vars, package_files>>

\* A caller awaits npm_package_latest_version(name): it calls
\* run_npm_subcommand(None, "info", args), which returns output.
call_latest_version(name, output) ==
    /\ package_call' =
          [ op |-> "npm_package_latest_version", name |-> name,
            subcommand |-> "info", args |-> InfoArgs(name), output |-> output,
            result |-> npm_package_latest_version(name, output) ]
    /\ UNCHANGED <<runtime_vars, process_vars, package_files>>

NextPackages ==
    \/ \E name \in PackageNames : call_installed_version(name)
    \/ \E name \in PackageNames, latest_version \in VersionTexts :
          call_should_install(name, latest_version)
    \/ \E name \in PackageNames, output \in InfoResults :
          call_latest_version(name, output)

SpecPackages == InitPackages /\ [][NextPackages]_vars

\* ----------------------------------------------------------------- claims

\* The await points inside install_if_needed, after the lock was taken.
InInstall(t) ==
    task[t].pc \in {"probe", "remove", "create", "download", "extract", "housekeep"}

\* The layout install_if_needed computes from a settings value on this build.
LayoutOf(s) ==
    NodePaths(s, node_dir(OsToken(target_os), ArchToken(target_arch)), target_os)

Last(seq) == seq[Len(seq)]

\* C1: at most one install_if_needed is in progress at any time: the lock is
\* held by exactly the task that is between the drain and the return of
\* install_if_needed, the disk changes only in a step of that task, and the
\* task about to probe sees the disk as it was when it took the lock, that
\* is, as the earlier caller left it.
C1_OneInstallAtATime ==
    /\ [](/\ \A t, u \in Tasks : InInstall(t) /\ InInstall(u) => t = u
          /\ \A t \in Tasks : InInstall(t) <=> lock_owner = t
          /\ \A t \in Tasks : task[t].pc = "probe" => files = task[t].fs0)
    /\ [][files' # files =>
            \E t \in Tasks : lock_owner = t /\ InInstall(t) /\ task'[t] # task[t]]_vars

\* One caller is extracting the archive while another waits for the lock.
C1_Witness ==
    \E t, u \in Tasks :
        /\ t # u
        /\ task[t].pc = "extract"
        /\ task[u].pc = "lock"

\* C2, as stated, for the retry after a spawn failure: both attempts of one
\* run_npm_subcommand call use the same layout, whatever was published since
\* the call began.
C2_SameLayoutInBothAttempts ==
    \A t \in Tasks :
        (/\ Len(task[t].layouts) = 2
         /\ task[t].outputs[1] = Err([kind |-> "io error spawning"]))
            => task[t].layouts[1] = task[t].layouts[2]

\* C2, amended: a value published after an install_if_needed call drained the
\* queue changes neither the layout of that call (it stays the layout of the
\* effective settings while the lock is held) nor the paths the rest of that
\* attempt uses; the next install_if_needed call, be it the second attempt of
\* the same run_npm_subcommand, computes its layout from the value published
\* last.
C2_LayoutFixedPerAttempt ==
    /\ [](\A t \in Tasks : lock_owner = t => task[t].paths = LayoutOf(settings))
    /\ [][/\ \A t \in Tasks :
                task[t].paths # NoPaths /\ task'[t].paths # NoPaths
                    => task'[t].paths = task[t].paths
          /\ \A t \in Tasks :
                task[t].pc = "lock" /\ task'[t].pc = "probe" /\ pending_settings # <<>>
                    => task'[t].paths = LayoutOf(Last(pending_settings))]_vars

\* A value that would give another layout is queued while a call holds the lock.
C2_Witness ==
    \E t \in Tasks :
        /\ lock_owner = t
        /\ task[t].pc \in {"probe", "download", "housekeep"}
        /\ pending_settings # <<>>
        /\ LayoutOf(Last(pending_settings)) # task[t].paths

\* A configure call with any of the values the observer publishes.
ConfigureCall == \E s \in SettingsValues : configure(s)

\* C3: configure can run in every state, whoever holds the lock and whatever
\* runs, and it only appends its value to the pending queue: the effective
\* settings, the lock, the tasks and the disk are as before.
C3_ConfigureNeverBlocks ==
    /\ [](n_configure < MaxConfigure => ENABLED ConfigureCall)
    /\ [][n_configure' # n_configure =>
            /\ Len(pending_settings') = Len(pending_settings) + 1
            /\ SubSeq(pending_settings', 1, Len(pending_settings)) = pending_settings
            /\ Last(pending_settings') \in SettingsValues
            /\ UNCHANGED <<settings, lock_owner, task, files>>]_vars

\* A value was published while a caller held the lock and was downloading or
\* extracting (the queue is emptied when the lock is taken).
C3_Witness ==
    \E t \in Tasks :
        /\ lock_owner = t
        /\ task[t].pc \in {"download", "extract"}
        /\ pending_settings # <<>>

\* The error install_if_needed or an attempt last handed to task record l.
LastError(l) ==
    IF l.op = "binary_path" THEN l.result.err ELSE Last(l.outputs).err

\* C4: run_npm_subcommand calls the attempt closure at most twice; when two
\* attempts ran, a second attempt that exited with status zero is the result,
\* and a second attempt that failed gives the error that names the subcommand
\* and carries the second attempt's error.
C4_TwoAttemptsSecondDecides ==
    \A t \in Tasks :
        LET l == task[t] IN
        /\ l.attempt <= 2
        /\ Len(l.outputs) <= 2
        /\ (l.pc = "done" /\ Len(l.outputs) = 2) =>
              /\ is_err(l.outputs[2]) =>
                    /\ l.result.kind = "err"
                    /\ l.result.err.kind = "failed to launch npm subcommand"
                    /\ l.result.err.subcommand = l.subcommand
                    /\ l.result.err.err = l.outputs[2].err
              /\ (~is_err(l.outputs[2]) /\ l.outputs[2].value.status = 0) =>
                    l.result = l.outputs[2]

\* A call whose first attempt failed to spawn and whose second attempt failed
\* in another way has returned.
C4_Witness ==
    \E t \in Tasks :
        /\ task[t].pc = "done"
        /\ Len(task[t].outputs) = 2
        /\ task[t].outputs[1] = Err([kind |-> "io error spawning"])
        /\ is_err(task[t].outputs[2])
        /\ task[t].outputs[2] # task[t].outputs[1]

C6_NonZeroExitNotRetried ==
    \A t \in Tasks :
        LET l == task[t] IN
        \A i \in 1..Len(l.outputs) :
            ~is_err(l.outputs[i]) =>
                /\ i = Len(l.outputs)
                /\ l.pc = "done"
                /\ l.outputs[i].value.status # 0 =>
                      /\ l.result.kind = "err"
                      /\ l.result.err.kind = "failed to execute npm subcommand"
                      /\ Len(l.result.err.stdout) = Len(l.outputs[i].value.stdout)
                      /\ Len(l.result.err.stderr) = Len(l.outputs[i].value.stderr)
                      /\ \A k \in 1..Len(l.outputs[i].value.stdout) :
                            l.outputs[i].value.stdout[k] < 128 =>
                                l.result.err.stdout[k] = l.outputs[i].value.stdout[k]
                      /\ \A k \in 1..Len(l.outputs[i].value.stderr) :
                            l.outputs[i].value.stderr[k] < 128 =>
                                l.result.err.stderr[k] = l.outputs[i].value.stderr[k]

\* The second attempt, made after a spawn failure, exited non-zero.
C6_Witness ==
    \E t \in Tasks :
        /\ Len(task[t].outputs) = 2
        /\ task[t].outputs[1] = Err([kind |-> "io error spawning"])
        /\ ~is_err(task[t].outputs[2])
        /\ task[t].outputs[2].value.status # 0

\* C7: a failing probe under a node or npm override ends install_if_needed
\* with the override error, with the disk as it was when the call took the
\* lock and without an HTTP request.
C7_OverrideFailureTouchesNothing ==
    [][\A t \in Tasks :
          (/\ task[t].pc = "probe"
           /\ settings.node # None \/ settings.npm # None
           /\ task'[t] # task[t]
           /\ task'[t].pc # "housekeep")
            => /\ files' = task[t].fs0
               /\ task[t].gets = 0
               /\ lock_owner' = 0
               /\ task'[t].pc \in {"lock", "done"}
               /\ LastError(task'[t]).kind = "node override could not be executed"]_vars

\* A call under an npm override failed with the override error while the disk
\* holds no cache directory for it.
C7_Witness ==
    \E t \in Tasks :
        /\ settings.npm # None
        /\ task[t].pc = "done"
        /\ task[t].op = "binary_path"
        /\ task[t].result.kind = "err"
        /\ task[t].result.err.kind = "node override could not be executed"
        /\ node_containing_dir \notin files

\* The tokens the release names use.
ReleaseOs == [macos |-> "darwin", linux |-> "linux", windows |-> "win"]
ReleaseArch == [x86_64 |-> "x64", aarch64 |-> "arm64"]

\* C8: on a build whose OS or architecture is not supported no call gets past
\* the platform match: none probes, the disk stays as it was, nothing is
\* requested, and every install_if_needed error is the unsupported-platform
\* error; on a supported build the install directory carries the release
\* tokens of the OS and the architecture.
C8_UnsupportedPlatformFailsFirst ==
    IF target_os \in DOMAIN ReleaseOs /\ target_arch \in DOMAIN ReleaseArch
    THEN \A t \in Tasks :
            (task[t].paths # NoPaths /\ settings.node = None) =>
                task[t].paths.node =
                    <<"support", "node",
                      "node-v22.5.1-" \o ReleaseOs[target_os] \o "-"
                          \o ReleaseArch[target_arch]>>
                    \o NODE_PATH(target_os)
    ELSE /\ files = SystemFiles
         /\ lock_owner = 0
         /\ \A t \in Tasks :
              /\ task[t].pc \in {"idle", "lock", "done"}
              /\ task[t].probes = 0
              /\ task[t].gets = 0
              /\ \A i \in 1..Len(task[t].outputs) :
                    /\ is_err(task[t].outputs[i])
                    /\ task[t].outputs[i].err.kind \in
                          {"Running on unsupported os",
                           "Running on unsupported architecture"}
              /\ task[t].pc = "done" =>
                    /\ task[t].result.kind = "err"
                    /\ task[t].op = "binary_path" =>
                          task[t].result.err.kind \in
                              {"Running on unsupported os",
                               "Running on unsupported architecture"}

\* binary_path has failed on a supported OS with an unsupported architecture.
C8_Witness ==
    \E t \in Tasks :
        /\ target_os = "macos"
        /\ target_arch = "riscv64"
        /\ task[t].pc = "done"
        /\ task[t].op = "binary_path"
        /\ task[t].result = Err([kind |-> "Running on unsupported architecture",
                                 other |-> "riscv64"])

\* C9: an install_if_needed call without override whose probe failed and
\* whose download and extraction succeeded has issued exactly one GET, and
\* returns, with the lock released, a layout whose node binary and npm entry
\* exist, so that a probe of that layout finds both.
C9_InstallDownloadsOnce ==
    [][\A t \in Tasks :
          (/\ task[t].pc = "housekeep"
           /\ ~task[t].valid
           /\ task'[t] # task[t])
            => /\ task[t].gets = 1
               /\ ~task[t].has_override
               /\ lock_owner' = 0
               /\ task[t].paths.node \in files'
               /\ task[t].paths.npm \in files'
               /\ probe_valid(files', task[t].paths, TRUE)
               /\ IF task[t].op = "binary_path"
                  THEN task'[t].result = Ok(task[t].paths.node)
                  ELSE task'[t].pc = "check_node" /\ task'[t].paths = task[t].paths]_vars

\* A call that found no installation on disk has downloaded and extracted.
C9_Witness ==
    \E t \in Tasks :
        /\ task[t].pc = "housekeep"
        /\ ~task[t].valid
        /\ task[t].gets = 1
        /\ task[t].fs0 = SystemFiles
        /\ task[t].paths.node \in files

\* C10: no task removes, recreates, downloads or extracts the installation
\* while the npm subprocess of another task runs from it.
C10_NoRepairWhileSubprocessRuns ==
    \A t, u \in Tasks :
        ~(/\ t # u
          /\ task[t].pc \in {"remove", "create", "download", "extract"}
          /\ task[u].pc = "running"
          /\ StartsWith(task[u].paths.node, node_containing_dir))

\* The path npm_package_installed_version reads for a package name.
ManifestOf(name) == PackageDirectory \o <<"node_modules", name, "package.json">>

\* The precedence of a parsed version as one number: the release triple,
\* then a version with a pre-release tag below the one without (the version
\* texts hold one pre-release tag only).
Precedence(v) ==
    ((v.major * 100 + v.minor) * 100 + v.patch) * 2 + (IF v.pre = <<>> THEN 1 ELSE 0)

\* C11: should_install_npm_package answers true when the local executable is
\* missing, when the installed-version lookup fails or finds nothing, when
\* the installed or the latest version text is no semantic version, and
\* otherwise exactly when the installed version precedes the latest one, so
\* false for equal versions and for an installed version that is newer.
C11_ShouldInstallDecision ==
    package_call.op = "should_install_npm_package" =>
        LET lookup == npm_package_installed_version(package_files, PackageDirectory,
                                                    package_call.name)
            installed == Version_parse(lookup.value[1])
            latest == Version_parse(package_call.latest_version)
        IN  IF LocalExecutable \notin DOMAIN package_files
            THEN package_call.result = TRUE
            ELSE IF is_err(lookup) \/ lookup.value = None
            THEN package_call.result = TRUE
            ELSE IF is_err(installed) \/ is_err(latest)
            THEN package_call.result = TRUE
            ELSE /\ package_call.result =
                        (Precedence(installed.value) < Precedence(latest.value))
                 /\ installed.value = latest.value => package_call.result = FALSE
                 /\ Precedence(installed.value) > Precedence(latest.value)
                        => package_call.result = FALSE

\* With the executable in place, installed 1.10.0 was compared with latest
\* 1.2.0 and the answer was false.
C11_Witness ==
    /\ package_call.op = "should_install_npm_package"
    /\ LocalExecutable \in DOMAIN package_files
    /\ npm_package_installed_version(package_files, PackageDirectory, package_call.name)
         = Ok(Some(<<"1", ".", "1", "0", ".", "0">>))
    /\ package_call.latest_version = <<"1", ".", "2", ".", "0">>
    /\ package_call.result = FALSE

\* C12: npm_package_installed_version answers Ok(None) when
\* <dir>/node_modules/<name>/package.json does not exist, an error when the
\* file cannot be opened for another reason, cannot be read, is no JSON or
\* declares no version string, and the declared version text as it is
\* otherwise; it can run while a task holds the settings lock, and it leaves
\* the lock, the tasks, the settings and the managed disk as they were.
C12_InstalledVersionLookup ==
    /\ [](package_call.op = "npm_package_installed_version" =>
            LET path == ManifestOf(package_call.name)
                file == package_files[path]
            IN  IF path \notin DOMAIN package_files
                THEN package_call.result = Ok(None)
                ELSE IF \/ file.open # "ok"
                        \/ ~file.utf8
                        \/ file.json.type # "object"
                        \/ ~HasMember(file.json, "version")
                        \/ Member(file.json, "version").type # "string"
                THEN is_err(package_call.result)
                ELSE package_call.result =
                        Ok(Some(Member(file.json, "version").text)))
    /\ [](\A name \in PackageNames : ENABLED call_installed_version(name))
    /\ [][package_call'.op = "npm_package_installed_version"
            => UNCHANGED <<lock_owner, task, settings, pending_settings, files>>]_vars

\* While a task held the lock inside install_if_needed, the lookup of a
\* package whose manifest cannot be opened returned an error.
C12_Witness ==
    /\ lock_owner = 1
    /\ package_call.op = "npm_package_installed_version"
    /\ ManifestOf(package_call.name) \in DOMAIN package_files
    /\ package_files[ManifestOf(package_call.name)].open = "PermissionDenied"
    /\ is_err(package_call.result)

\* C13: npm_package_latest_version runs the info subcommand; an error of
\* run_npm_subcommand is its result; from a response that parses it returns
\* the latest dist-tag when there is one, else the last entry of the versions
\* list, else the not-found error naming the package.
C13_LatestVersionChoice ==
    package_call.op = "npm_package_latest_version" =>
        /\ package_call.subcommand = "info"
        /\ package_call.args[1] = package_call.name
        /\ is_err(package_call.output) => package_call.result = package_call.output
        /\ (/\ ~is_err(package_call.output)
            /\ ~is_err(NpmInfo_from_slice(package_call.output.value.stdout))) =>
              LET doc == package_call.output.value.stdout
                  versions == Member(doc, "versions").items
                  tagged == /\ HasMember(doc, "dist-tags")
                            /\ HasMember(Member(doc, "dist-tags"), "latest")
                            /\ Member(Member(doc, "dist-tags"), "latest").type = "string"
              IN  IF tagged
                  THEN package_call.result =
                          Ok(Member(Member(doc, "dist-tags"), "latest").text)
                  ELSE IF versions # <<>>
                  THEN package_call.result = Ok(versions[Len(versions)].text)
                  ELSE package_call.result =
                          Err([kind |-> "no version found for npm package",
                               name |-> package_call.name])

\* The response carried the latest tag 2.0.0 and a versions list that ends
\* with another version; the tag was returned.
C13_Witness ==
    /\ package_call.op = "npm_package_latest_version"
    /\ ~is_err(package_call.output)
    /\ package_call.output.value.stdout.type = "object"
    /\ HasMember(package_call.output.value.stdout, "versions")
    /\ Len(Member(package_call.output.value.stdout, "versions").items) = 3
    /\ package_call.result = Ok(<<"2", ".", "0", ".", "0">>)

\* The commands of the attempts of task t, without those of the probes.
AttemptCommands(t) ==
    SelectSeq(task[t].commands,
              LAMBDA c : c.args[Len(create_npm_command(NoPaths).args) + 1]
                            = Arg(task[t].subcommand))

\* The proxy text with the host alone remapped.
HostRemapped(uri) ==
    Uri_to_string([uri EXCEPT !.host = IF @ = Localhost THEN Loopback ELSE @])

\* C14: every attempt's command ends with --proxy and the configured proxy
\* URL in which a localhost host is replaced by 127.0.0.1 and every other
\* part is as configured; without a proxy the command has no --proxy.
C14_ProxyHostRemapped ==
    \A t \in Tasks :
        \A i \in 1..Len(AttemptCommands(t)) :
            LET args == AttemptCommands(t)[i].args
            IN  IF proxy = None
                THEN \A k \in 1..Len(args) : args[k] # Arg("--proxy")
                ELSE /\ args[Len(args) - 1] = Arg("--proxy")
                     /\ args[Len(args)] = HostRemapped(proxy[1])

\* C15: the step that starts install_if_needed empties the queue and makes
\* the effective settings the value published last, as a whole: a field that
\* value leaves unset is unset afterwards, whatever earlier values had set;
\* with an empty queue the effective settings stay; no other step writes the
\* effective settings.
C15_LastPublishedWins ==
    [][/\ \A t \in Tasks :
            (task[t].pc = "lock" /\ task'[t] # task[t]) =>
                /\ pending_settings' = <<>>
                /\ pending_settings = <<>> => settings' = settings
                /\ pending_settings # <<>> =>
                      /\ settings' = Last(pending_settings)
                      /\ \A f \in {"node", "npm", "cache"} :
                            Last(pending_settings)[f] = None => settings'[f] = None
       /\ settings' # settings =>
            \E t \in Tasks : task[t].pc = "lock" /\ task'[t] # task[t]]_vars

\* A call whose first install_if_needed ran under a node override runs its
\* second one under a later value that sets the cache only: node is back at
\* the computed default.
C15_Witness ==
    \E t \in Tasks :
        /\ Len(task[t].layouts) = 2
        /\ task[t].layouts[1].node = SystemNode
        /\ task[t].layouts[2] = LayoutOf([node |-> None, npm |-> None, cache |-> CustomCache])
        /\ settings = [node |-> None, npm |-> None, cache |-> CustomCache]

\* C16: an install_if_needed call whose probe succeeded, with or without
\* override, goes from the probe straight to the housekeeping and returns
\* its layout: it has requested nothing, every file that existed still
\* exists, the node binary and the npm entry among them, and the only paths
\* it may have added are the cache directory and the two rc files.
C16_ValidInstallationUntouched ==
    /\ [](\A t \in Tasks :
            task[t].valid =>
                /\ task[t].pc = "housekeep"
                /\ task[t].gets = 0
                /\ files = task[t].fs0)
    /\ [][\A t \in Tasks :
            /\ (task[t].pc = "probe" /\ task'[t].valid) => files' = files
            /\ (task[t].valid /\ task'[t] # task[t]) =>
                  /\ files \subseteq files'
                  /\ files' \ files \subseteq
                        {task[t].paths.cache, user_rc(task[t].paths),
                         global_rc(task[t].paths)}
                  /\ task[t].paths.node \in files'
                  /\ task[t].paths.npm \in files'
                  /\ task[t].gets = 0
                  /\ task'[t].pc \in {"done", "check_node"}]_vars

\* The second install_if_needed of one call found the installation valid
\* under an npm override, as the first one had.
C16_Witness ==
    \E t \in Tasks :
        /\ task[t].pc = "housekeep"
        /\ task[t].valid
        /\ task[t].has_override
        /\ task[t].probes = 2
        /\ Len(task[t].outputs) = 1
        /\ task[t].outputs[1] = Err([kind |-> "io error spawning"])

\* The version-specific install directory of this build.
InstallDir == node_dir(OsToken(target_os), ArchToken(target_arch))

\* C17, as stated: what install_if_needed deletes lies in the install
\* directory of the current version, and a deletion that failed is not
\* followed by a failure of the call at the recreation.
C17_OnlyVersionDirRecreated ==
    [][/\ \A p \in files \ files' : StartsWith(p, InstallDir)
       /\ \A t \in Tasks :
            (task[t].pc = "create" /\ task'[t] # task[t]) =>
                task'[t].pc = "download"]_vars

\* C17, amended: the directory deleted and recreated after a failed probe
\* without override is the directory that contains the installations of all
\* versions, <support-dir>/node: the deletion removes everything at or below
\* it, other versions included, and nothing else; no other step removes a
\* file; after a successful recreation that directory is empty; when the
\* deletion failed and left the directory in place the recreation fails and
\* the call returns the directory-creation error.
C17_ContainingDirRecreated ==
    [][/\ files' \subseteq files \/ files \subseteq files'
       /\ files \ files' # {} =>
            /\ \E t \in Tasks :
                  /\ task[t].pc = "remove"
                  /\ task'[t].pc = "create"
                  /\ ~task[t].has_override
                  /\ ~task[t].valid
            /\ files' = {p \in files : ~StartsWith(p, <<"support", "node">>)}
       /\ \A t \in Tasks :
            (task[t].pc = "create" /\ task'[t] # task[t]) =>
                IF <<"support", "node">> \in files
                THEN /\ files' = files
                     /\ task'[t].pc \in {"lock", "done"}
                     /\ LastError(task'[t]).kind = "error creating node containing dir"
                ELSE /\ task'[t].pc = "download"
                     /\ {p \in files' : StartsWith(p, <<"support", "node">>)}
                            = {<<"support", "node">>}]_vars

\* The call found an older version on disk when it took the lock; it has
\* deleted and recreated the directory, and the older version is gone.
C17_Witness ==
    \E t \in Tasks :
        /\ task[t].pc = "download"
        /\ OlderVersionFiles \subseteq task[t].fs0
        /\ OlderVersionFiles \cap files = {<<"support", "node">>}

\* C18: an install_if_needed call returns a layout only from the
\* housekeeping, after a valid probe as after a download: it has then called
\* create_dir on the cache directory and written nothing into
\* blank_user_npmrc and into blank_global_npmrc of that directory, in this
\* order; whether the three calls succeeded or failed, the lock is released
\* and the layout is returned to the caller.
C18_HousekeepingBestEffort ==
    [][\A t \in Tasks :
          /\ (task[t].pc = "housekeep" /\ task'[t] # task[t]) =>
                LET log == task'[t].fs_calls
                    n == Len(log)
                    cache == task[t].paths.cache
                IN  /\ n = Len(task[t].fs_calls) + 3
                    /\ log[n - 2].call = "create_dir" /\ log[n - 2].path = cache
                    /\ log[n - 1].call = "write"
                    /\ log[n - 1].path = cache \o <<"blank_user_npmrc">>
                    /\ log[n - 1].contents = <<>>
                    /\ log[n].call = "write"
                    /\ log[n].path = cache \o <<"blank_global_npmrc">>
                    /\ log[n].contents = <<>>
                    /\ files \subseteq files'
                    /\ files' \ files \subseteq {log[k].path : k \in (n - 2)..n}
                    /\ lock_owner' = 0
                    /\ IF task[t].op = "binary_path"
                       THEN task'[t].pc = "done" /\ task'[t].result = Ok(task[t].paths.node)
                       ELSE task'[t].pc = "check_node" /\ task'[t].paths = task[t].paths
          /\ (task'[t] # task[t] /\ task'[t].pc = "check_node") => task[t].pc = "housekeep"
          /\ (/\ task'[t] # task[t]
              /\ task[t].op = "binary_path"
              /\ task'[t].pc = "done"
              /\ task'[t].result.kind = "ok") => task[t].pc = "housekeep"]_vars

\* A call under a cache override below a directory that does not exist got
\* its layout although all three housekeeping calls failed.
C18_Witness ==
    \E t \in Tasks :
        /\ task[t].pc = "check_node"
        /\ task[t].paths.cache = CustomCache
        /\ Len(task[t].fs_calls) = 3
        /\ \A k \in 1..3 : task[t].fs_calls[k].path \notin files

\* The relative paths of the node binary and the npm entry on this build.
RelativeNode == IF target_os = "windows" THEN <<"node.exe">> ELSE <<"bin", "node">>
RelativeNpm ==
    IF target_os = "windows"
    THEN <<"node_modules", "npm", "bin", "npm-cli.js">>
    ELSE <<"bin", "npm">>

\* C19: the layout of an install_if_needed call has, field by field, the
\* override of the effective settings when it is set and the path below the
\* install directory otherwise (NODE_PATH, NPM_PATH, cache); has_override is
\* true exactly when node or npm is overridden, so that a failing probe under
\* a cache override alone leads to the wipe and the download, and under a
\* node or npm override to the override error.
C19_LayoutPerField ==
    /\ [](\A t \in Tasks :
            lock_owner = t =>
                /\ task[t].paths.node =
                      IF settings.node # None THEN settings.node
                      ELSE InstallDir \o RelativeNode
                /\ task[t].paths.npm =
                      IF settings.npm # None THEN settings.npm
                      ELSE InstallDir \o RelativeNpm
                /\ task[t].paths.cache =
                      IF settings.cache # None THEN settings.cache
                      ELSE InstallDir \o <<"cache">>
                /\ task[t].has_override <=>
                      (settings.node # None \/ settings.npm # None))
    /\ [][\A t \in Tasks :
            (task[t].pc = "probe" /\ task'[t] # task[t] /\ ~task'[t].valid) =>
                IF settings.node = None /\ settings.npm = None
                THEN task'[t].pc = "remove" /\ lock_owner' = t
                ELSE /\ task'[t].pc \in {"lock", "done"}
                     /\ LastError(task'[t]).kind = "node override could not be executed"]_vars

\* Under a cache override alone the probe failed, and the call is
\* downloading with the cache of its layout at the override.
C19_Witness ==
    \E t \in Tasks :
        /\ task[t].pc = "download"
        /\ settings = [node |-> None, npm |-> None, cache |-> CustomCache]
        /\ task[t].paths.cache = CustomCache
        /\ task[t].paths.node = InstallDir \o RelativeNode

\* The arguments every npm command starts with, for a layout.
PinnedArgs(paths) ==
    <<paths.npm, <<"--cache">>, paths.cache,
      <<"--userconfig">>, paths.cache \o <<"blank_user_npmrc">>,
      <<"--globalconfig">>, paths.cache \o <<"blank_global_npmrc">> >>

\* The step of task t builds a command.
BuildsCommand(t) == Len(task'[t].commands) = Len(task[t].commands) + 1

\* What C20 says of every command, but for the variables passed on: the
\* program is the node binary of the current layout, the environment is
\* cleared, the arguments start with the npm entry and the three pinned
\* options; the probe passes --version and no variable; an attempt passes the
\* subcommand next, and as PATH the node binary's directory, the npm
\* entry's directory and the entries of the process PATH in their order.
CommandShape(t) ==
    LET c == Last(task'[t].commands)
        paths == task[t].paths
    IN  /\ c.program = paths.node
        /\ c.env_clear
        /\ Len(c.args) >= 8
        /\ SubSeq(c.args, 1, 7) = PinnedArgs(paths)
        /\ task[t].pc \in {"probe", "spawn"}
        /\ task[t].pc = "probe" =>
              /\ c.args = PinnedArgs(paths) \o << <<"--version">> >>
              /\ DOMAIN c.env = {}
        /\ task[t].pc = "spawn" =>
              /\ c.args[8] = <<task[t].subcommand>>
              /\ "PATH" \in DOMAIN c.env
              /\ c.env["PATH"] =
                    <<SubSeq(paths.node, 1, Len(paths.node) - 1),
                      SubSeq(paths.npm, 1, Len(paths.npm) - 1)>>
                    \o (IF "PATH" \in DOMAIN process_env THEN process_env["PATH"]
                        ELSE <<>>)

\* C20, as stated: every command has that shape, and PATH is the only
\* variable an attempt's command carries.
C20_OnlyPathAddedBack ==
    [][\A t \in Tasks :
          BuildsCommand(t) =>
              /\ CommandShape(t)
              /\ task[t].pc = "spawn" => DOMAIN Last(task'[t].commands).env = {"PATH"}]_vars

\* C20, amended: every command has that shape; an attempt's command carries
\* PATH and, on a Windows build, SYSTEMROOT and ComSpec with the values of
\* the process when the process has them, and no other variable.
C20_CommandPinnedAndIsolated ==
    [][\A t \in Tasks :
          BuildsCommand(t) =>
              /\ CommandShape(t)
              /\ task[t].pc = "spawn" =>
                    LET env == Last(task'[t].commands).env
                        passed == IF target_os = "windows"
                                  THEN {"SYSTEMROOT", "ComSpec"} \cap DOMAIN process_env
                                  ELSE {}
                    IN  /\ DOMAIN env = {"PATH"} \cup passed
                        /\ \A v \in passed : env[v] = process_env[v]]_vars

\* On a Windows build whose process has SYSTEMROOT, an attempt under an npm
\* override has spawned its process.
C20_Witness ==
    \E t \in Tasks :
        /\ task[t].pc = "running"
        /\ target_os = "windows"
        /\ settings.npm # None
        /\ "SYSTEMROOT" \in DOMAIN Last(task[t].commands).env
        /\ Len(Last(task[t].commands).env["PATH"]) = 4

\* The step is one of task t.
Steps(t) == task'[t] # task[t]

\* The step of task t ends an attempt with an error of this kind: the error
\* is the attempt's output, no command was built, and the task is back at
\* the lock for the second attempt or has its result.
AttemptFailsWith(t, kind) ==
    /\ task'[t].outputs = Append(task[t].outputs, Err([kind |-> kind]))
    /\ task'[t].commands = task[t].commands
    /\ task'[t].pc \in {"lock", "done"}

InAttemptTail(t) == task[t].pc \in {"check_node", "check_npm", "spawn", "running"}

\* C22: the settings lock is not held by a task that checks the files,
\* builds the command or awaits its process, and a caller that waits for the
\* lock can take it whenever no other task is inside install_if_needed,
\* whatever processes are running.
C22_LockNotHeldWhileSubprocessRuns ==
    /\ [](\A t \in Tasks : InAttemptTail(t) => lock_owner # t)
    /\ [](\A t \in Tasks :
            (task[t].pc = "lock" /\ \A u \in Tasks : ~InInstall(u))
                => ENABLED install_lock(t))

\* The processes of two calls are running and a third caller is inside
\* install_if_needed, holding the lock.
C22_Witness ==
    \E t, u, v \in Tasks :
        /\ t # u /\ t # v /\ u # v
        /\ task[t].pc = "running"
        /\ task[u].pc = "running"
        /\ InInstall(v)
        /\ lock_owner = v

\* Task t runs an operation that has not returned.
InProgress(t) == task[t].pc \notin {"idle", "done"}

\* The errors install_if_needed returns once it holds the lock.
InstallErrors ==
    { "Running on unsupported os", "Running on unsupported architecture",
      "node override could not be executed", "error creating node containing dir",
      "error downloading Node binary tarball", "error unpacking archive" }

\* C23: the lock is held only by a task inside install_if_needed; every step
\* in which install_if_needed returns, with the layout or with one of its
\* errors, leaves the lock free; and with every awaited future completing,
\* each operation a caller began returns.
C23_LockReleasedOnEveryExit ==
    /\ [](\A t \in Tasks : lock_owner = t => InInstall(t))
    /\ [](lock_owner \in Tasks \cup {0})
    /\ [][\A t \in Tasks :
            (/\ Steps(t)
             /\ task[t].pc = "lock" \/ InInstall(t)
             /\ ~InInstall(t)')
                => /\ lock_owner' = 0
                   /\ \/ task'[t].pc = "check_node"
                      \/ task'[t].op = "binary_path" /\ ~is_err(task'[t].result)
                      \/ LastError(task'[t]).kind \in InstallErrors]_vars
    /\ \A t \in Tasks : InProgress(t) ~> task[t].pc = "done"

\* A download failed and its call has returned the error, the lock is free,
\* and another caller waits to take it.
C23_Witness ==
    \E t, u \in Tasks :
        /\ t # u
        /\ task[t].pc = "done"
        /\ task[t].op = "binary_path"
        /\ is_err(task[t].result)
        /\ task[t].result.err.kind = "error downloading Node binary tarball"
        /\ task[u].pc = "lock"
        /\ lock_owner = 0

\* The step of task t is a return of install_if_needed with the layout.
ReturnsLayout(t) ==
    /\ Steps(t)
    /\ InInstall(t)
    /\ \/ task'[t].pc = "check_node"
       \/ task'[t].pc = "done" /\ task[t].op = "binary_path" /\ ~is_err(task'[t].result)

\* The step of task t is a return of install_if_needed with an error of this
\* kind.
ReturnsError(t, kind) ==
    /\ Steps(t)
    /\ InInstall(t)
    /\ task'[t].pc \in {"lock", "done"}
    /\ LastError(task'[t]).kind = kind

\* The first attempt of the call of task t failed in the download or in the
\* extraction, and its second attempt is under way.
AfterFailedInstall(t) ==
    /\ task[t].attempt = 2
    /\ Len(task[t].outputs) = 1
    /\ is_err(task[t].outputs[1])
    /\ task[t].outputs[1].err.kind \in
          {"error downloading Node binary tarball", "error unpacking archive"}

\* C24, as stated: after a failed install, the next call whose probe fails
\* without override goes through the whole sequence up to the download: the
\* only errors it can return are those of the download and of the
\* extraction.
C24_NextCallReachesDownload ==
    [][\A t \in Tasks :
          (/\ Steps(t)
           /\ AfterFailedInstall(t)
           /\ InInstall(t)
           /\ ~task[t].has_override
           /\ ~InInstall(t)'
           /\ ~ReturnsLayout(t))
              => task[t].pc \in {"download", "extract"}]_vars

\* C24, amended: whatever earlier calls returned, a call whose probe failed
\* without override goes on to delete and to recreate the containing
\* directory; the recreation fails, and the call with it, exactly when the
\* directory is still there, and otherwise the download follows, then the
\* extraction; an extraction that succeeded leaves the node and npm files of
\* the layout on disk and the call returns the layout.  A layout is returned
\* only from the housekeeping, reached after a valid probe or after the
\* download and extraction of the same call.
C24_FailedInstallRecoverable ==
    [][\A t \in Tasks :
          Steps(t) =>
            /\ (task[t].pc = "probe" /\ ~task[t].has_override /\ ~task'[t].valid)
                  => task'[t].pc = "remove"
            /\ task[t].pc = "remove" =>
                  /\ task'[t].pc = "create"
                  /\ files' \in {files, remove_dir_all(files, node_containing_dir)}
            /\ task[t].pc = "create" =>
                  IF node_containing_dir \in files
                  THEN ReturnsError(t, "error creating node containing dir")
                  ELSE task'[t].pc = "download" /\ node_containing_dir \in files'
            /\ task[t].pc = "download" =>
                  \/ task'[t].pc = "extract" /\ task'[t].gets = 1
                  \/ ReturnsError(t, "error downloading Node binary tarball")
            /\ task[t].pc = "extract" =>
                  \/ /\ task'[t].pc = "housekeep"
                     /\ task[t].gets = 1
                     /\ {task[t].paths.node, task[t].paths.npm} \subseteq files'
                  \/ ReturnsError(t, "error unpacking archive")
            /\ task'[t].pc = "housekeep" =>
                  \/ task[t].pc = "probe" /\ task'[t].valid
                  \/ task[t].pc = "extract"
            /\ task[t].pc = "housekeep" =>
                  /\ ReturnsLayout(t)
                  /\ task[t].valid \/ task[t].gets = 1
                  /\ {task[t].paths.node, task[t].paths.npm} \subseteq files'
            /\ ReturnsLayout(t) => task[t].pc = "housekeep"]_vars

\* The first attempt of a call ended with the extraction error; the second
\* attempt probed, installed again and was handed a layout whose files
\* exist.
C24_Witness ==
    \E t \in Tasks :
        /\ task[t].pc = "check_node"
        /\ AfterFailedInstall(t)
        /\ task[t].outputs = <<Err([kind |-> "error unpacking archive"])>>
        /\ task[t].probes = 2
        /\ StartsWith(task[t].paths.node, node_containing_dir)
        /\ {task[t].paths.node, task[t].paths.npm} \subseteq files

====
